---- MODULE Spec2Model ----
(***************************************************************************)
(* Verification model of the collabcanvas AI backend                       *)
(* (packages/backend): the session memory store (services/                 *)
(* session_manager.py), the singleton agent lifecycle and the command      *)
(* executor (agents/canvas_agent.py), as driven by main.py.                *)
(*                                                                         *)
(* Threads.  execute_canvas_command is modelled as run by the threads of   *)
(* Threads, interleaved at every access to module-level state; the call    *)
(* agent.invoke runs on the worker thread of the call's own                *)
(* ThreadPoolExecutor.                                                     *)
(*                                                                         *)
(* Event loop.  check_agent_health (from the monitor task of main.py) and  *)
(* get_agent_stats run as whole steps between two commands (SpecHealth).   *)
(* The SessionManager methods are whole steps too, except in SpecLock,     *)
(* where entering and leaving `with _lock:` are steps of their own.        *)
(*                                                                         *)
(* Time.  time.time() is the variable now, in seconds; it only moves       *)
(* forward, by SESSION_TIMEOUT or SESSION_TIMEOUT + 1 at a step, so that   *)
(* idle gaps of exactly the timeout and of just more than it both occur.   *)
(***************************************************************************)
EXTENDS Integers, Sequences, FiniteSets, TLC

\* ------------------------------------------------------------------ bounds
\* the clock stops after MaxAdvances steps of SESSION_TIMEOUT + 1 seconds
MaxAdvances == 2
\* memory objects (ConversationBufferWindowMemory) ever allocated
MaxHandles == 3
\* turns saved into one memory object
MaxTurns == 1
\* calls of execute_canvas_command ever started
MaxExecutes == 2
\* modifications of tools.py / prompts.py
MaxMods == 1
\* cycles of agent_health_monitor
MaxProbes == 2
\* intermediate steps in a result given to extract_shapes_from_result
MaxSteps == 3
\* tool calls made on the canvas
MaxToolCalls == 1
\* uuid4 values drawn by the tools
MaxIds == 7
\* characters of a colour string given to normalize_color
MaxColorLen == 3

\* ------------------------------------------------------------- constants
\* session_manager.py:18   SESSION_TIMEOUT = 30 * 60
SESSION_TIMEOUT == 30 * 60
\* canvas_agent.py:308     SessionManager.get_memory(session_id, k=6)
WindowK == 6

\* main.py:229             await asyncio.sleep(600)
HEALTH_INTERVAL == 600

\* OPENAI_API_KEY: unset or empty, the placeholder of the .env template, a key
Credentials == {"", "your-openai-api-key-here", "sk-key"}
\* canvas_agent.py:60      if not api_key
HasKey(k) == k # ""
\* main.py:158, 182, 248   openai_key and openai_key != "your-openai-api-key-here"
Configured(k) == k # "" /\ k # "your-openai-api-key-here"

Threads == {"t1", "t2"}
SessionIds == {"s1", "s2"}
Commands == {"c1"}
\* None for an object reference (agents and memory objects are numbered from 1)
NoRef == 0
\* None for a stored modification time (get_file_mtime itself returns 0 on error)
NoMtime == -1
\* None for _last_health_check
NoCheck == 0
MaxTime == MaxAdvances * (SESSION_TIMEOUT + 1)

VARIABLES
    \* services/session_manager.py
    sessions,               \* _sessions: session id -> [memory, last_access]
    hist,                   \* memory object -> the turns saved through it
    next_handle,            \* memory objects allocated so far
    now,                    \* time.time()
    last_get,               \* per session id, what its callers last saw
    api_ret,                \* the last SessionManager call and its return value
    \* agents/canvas_agent.py, module state
    global_agent,           \* _global_agent
    agent_creation_count,   \* _agent_creation_count
    tools_file_mtime,       \* _tools_file_mtime
    prompts_file_mtime,     \* _prompts_file_mtime
    \* environment
    files,                  \* st_mtime of tools.py and prompts.py
    api_key,                \* os.getenv("OPENAI_API_KEY")
    started,                \* startup_event has run
    mods,                   \* file modifications so far
    executes,               \* execute_canvas_command calls so far
    next_agent,             \* AgentExecutor objects created so far
    dirty,                  \* a file was modified after the last stat
    init_calls,             \* initialize_agent calls so far
    \* one call of execute_canvas_command per thread
    pc, call, loc, worker, result, obs,
    \* agents/canvas_agent.py and main.py: health monitoring
    last_health_check,      \* _last_health_check
    monitor,                \* the task running agent_health_monitor
    probes,                 \* health cycles so far
    health_ret,             \* how the check_agent_health call just made ended
    stats_ret,              \* what the get_agent_stats call just made returned
    \* services/session_manager.py, at the grain of the lock
    lock,                   \* _lock: the thread holding it
    sm,                     \* per thread, its SessionManager call in progress
    \* extract_shapes_from_result applied on its own
    norm_in, norm_out,
    \* the canvas collection of the document store and agents/tools.py
    store,                  \* canvases/main-canvas/shapes: document id -> fields
    next_id,                \* uuid4 values drawn so far
    tool_calls,             \* tool calls made so far (the server's clock)
    tool_ret,               \* the tool call just made: arguments, return, store calls
    cmd_ret,                \* what execute_canvas_command returned for that call
    \* normalize_color applied on its own
    color_in, color_out

vars == << sessions, hist, next_handle, now, last_get, api_ret,
           global_agent, agent_creation_count, tools_file_mtime, prompts_file_mtime,
           files, api_key, started, mods, executes, next_agent, dirty, init_calls,
           pc, call, loc, worker, result, obs,
           last_health_check, monitor, probes, health_ret, stats_ret,
           lock, sm, norm_in, norm_out,
           store, next_id, tool_calls, tool_ret, cmd_ret, color_in, color_out >>

sessVars == << sessions, hist, next_handle, now, last_get, api_ret >>
agentVars == << global_agent, agent_creation_count, tools_file_mtime, prompts_file_mtime >>
envVars == << files, api_key, started, mods, executes, next_agent, dirty, init_calls >>
threadVars == << pc, call, loc, worker, result, obs >>
healthVars == << last_health_check, monitor, probes, health_ret, stats_ret >>
lockVars == << lock, sm >>
normVars == << norm_in, norm_out >>
storeVars == << store, next_id, tool_calls, tool_ret, cmd_ret >>
colorVars == << color_in, color_out >>
toolVars == << storeVars, colorVars >>
auxVars == << healthVars, lockVars, normVars, toolVars >>

\* ------------------------------------------------ session_manager.py

\* (mutants of Expired: the comparison made inclusive; the timeout taken in ms)
Expired_AtTimeout(sess, current_time) ==
    { sid \in DOMAIN sess : current_time - sess[sid].last_access >= SESSION_TIMEOUT }

Expired_Millis(sess, current_time) ==
    { sid \in DOMAIN sess : current_time - sess[sid].last_access > SESSION_TIMEOUT * 1000 }

\* _cleanup_expired_sessions, lines 80-83: the sessions the sweep removes
Expired(sess, current_time) ==
    { sid \in DOMAIN sess : current_time - sess[sid].last_access > SESSION_TIMEOUT }

\* _cleanup_expired_sessions: the sessions that survive the sweep
cleanup_expired_sessions(sess, current_time) ==
    [ sid \in (DOMAIN sess) \ Expired(sess, current_time) |-> sess[sid] ]

\* (mutant of NewMemory: one memory object shared by all sessions)
NewMemory_Shared(sess, nh) == 1

\* the memory object a new session gets: a new ConversationBufferWindowMemory
NewMemory(sess, nh) == nh + 1

\* (mutant of get_memory_map: the lookup is made without the sweep)
get_memory_map_NoSweep(sess, session_id, t, nh) ==
    IF session_id \notin DOMAIN sess
    THEN [ sid \in (DOMAIN sess) \cup {session_id} |->
             IF sid = session_id
             THEN [memory |-> NewMemory(sess, nh), last_access |-> t]
             ELSE sess[sid] ]
    ELSE [ sess EXCEPT ![session_id].last_access = t ]

\* get_memory, lines 37-56: the session map after the call
get_memory_map(sess, session_id, t, nh) ==
    LET swept == cleanup_expired_sessions(sess, t)
    IN  IF session_id \notin DOMAIN swept
        THEN [ sid \in (DOMAIN swept) \cup {session_id} |->
                 IF sid = session_id
                 THEN [memory |-> NewMemory(swept, nh), last_access |-> t]
                 ELSE swept[sid] ]
        ELSE [ swept EXCEPT ![session_id].last_access = t ]

\* whether the call allocates a memory object
Allocates(sess, session_id, t) ==
    session_id \notin DOMAIN cleanup_expired_sessions(sess, t)

\* what callers of get_memory(sid) observe: the handle, when the unbroken run
\* of calls that returned it began, and when the last of them was made
Observe(lg, session_id, h, t) ==
    [ lg EXCEPT ![session_id] =
        [ h |-> h,
          first |-> IF lg[session_id].h = h THEN lg[session_id].first ELSE t,
          t |-> t ] ]

\* SessionManager.get_memory as one step: the lock is held from line 36 to 58
get_memory(session_id) ==
    LET m == get_memory_map(sessions, session_id, now, next_handle)
    IN  /\ Allocates(sessions, session_id, now) => next_handle < MaxHandles
        /\ sessions' = m
        /\ next_handle' = IF Allocates(sessions, session_id, now)
                          THEN next_handle + 1 ELSE next_handle
        /\ last_get' = Observe(last_get, session_id, m[session_id].memory, now)
        /\ api_ret' = [op |-> "get_memory", sid |-> session_id,
                       val |-> m[session_id].memory]
        /\ UNCHANGED << hist, now >>

\* (mutant of clear_session_map: the whole map is emptied)
clear_session_map_All(sess, session_id) == << >>

\* SessionManager.clear_session, lines 72-73: the session map after the call
clear_session_map(sess, session_id) ==
    [ sid \in (DOMAIN sess) \ {session_id} |-> sess[sid] ]

clear_session(session_id) ==
    /\ sessions' = clear_session_map(sessions, session_id)
    /\ last_get' = [ last_get EXCEPT ![session_id] = [h |-> NoRef, first |-> 0, t |-> 0] ]
    /\ api_ret' = [op |-> "clear_session", sid |-> session_id,
                   val |-> IF session_id \in DOMAIN sessions THEN 1 ELSE 0]
    /\ UNCHANGED << hist, next_handle, now >>

\* (mutant of get_active_sessions_count: sessions past the timeout are not counted)
get_active_sessions_count_Live == Cardinality((DOMAIN sessions) \ Expired(sessions, now))

\* SessionManager.get_active_sessions_count
get_active_sessions_count == Cardinality(DOMAIN sessions)

CountActive ==
    /\ api_ret' = [op |-> "get_active_sessions_count", sid |-> "s1",
                   val |-> get_active_sessions_count]
    /\ UNCHANGED << sessions, hist, next_handle, now, last_get >>

\* A holder of a memory object saves a turn through it
\* (ConversationBufferWindowMemory.save_context appends to the object's history).
save_context(h, turn) ==
    /\ h \in 1..next_handle
    /\ Len(hist[h]) < MaxTurns
    /\ hist' = [ hist EXCEPT ![h] = Append(@, turn) ]
    /\ UNCHANGED << sessions, next_handle, now, last_get, api_ret >>

\* the window a memory object exposes: its last k turns
Window(h) ==
    LET n == Len(hist[h])
    IN  IF n <= WindowK THEN hist[h] ELSE SubSeq(hist[h], n - WindowK + 1, n)

\* the clock
Advance(d) ==
    /\ now + d <= MaxTime
    /\ now' = now + d
    /\ UNCHANGED << sessions, hist, next_handle, last_get, api_ret >>

\* clients of SessionManager other than execute_canvas_command
ClientGetMemory == \E sid \in SessionIds : get_memory(sid) /\ UNCHANGED << auxVars, agentVars, envVars, threadVars >>
ClientClear == \E sid \in SessionIds : clear_session(sid) /\ UNCHANGED << auxVars, agentVars, envVars, threadVars >>
ClientCount == CountActive /\ UNCHANGED << auxVars, agentVars, envVars, threadVars >>
ClientSave == \E h \in 1..MaxHandles, c \in Commands : save_context(h, <<c, "reply">>) /\ UNCHANGED << auxVars, agentVars, envVars, threadVars >>
Tick == \E d \in {SESSION_TIMEOUT, SESSION_TIMEOUT + 1} : Advance(d) /\ UNCHANGED << auxVars, agentVars, envVars, threadVars >>

\* ------------------------------------------- canvas_agent.py: data values
\* Python values the executor inspects: a dict is a function from keys to
\* values, a list is a sequence
Dict(d) == [tag |-> "dict", val |-> d]
List(s) == [tag |-> "list", val |-> s]
Str(x) == [tag |-> "str", val |-> x]
NoneVal == [tag |-> "none"]

IsDict(v) == v.tag = "dict"
IsList(v) == v.tag = "list"
Has(d, k) == k \in DOMAIN d
SetKey(d, k, v) == [ x \in (DOMAIN d) \cup {k} |-> IF x = k THEN v ELSE d[x] ]

\* the shapes of a list whose items are dicts carrying "type"
RECURSIVE TypedItems(_)
TypedItems(s) ==
    IF s = << >> THEN << >>
    ELSE LET x == Head(s)
         IN  (IF IsDict(x) /\ Has(x.val, "type") THEN << x.val >> ELSE << >>)
             \o TypedItems(Tail(s))

\* (mutant of FromOutput: any dict in the final answer is taken for a shape)
FromOutput_AnyDict(res) ==
    IF ~Has(res, "output") THEN << >>
    ELSE LET output == res["output"]
         IN  IF IsDict(output) THEN << output.val >>
             ELSE IF IsList(output) THEN TypedItems(output.val)
             ELSE << >>

\* lines 386-398: what the final answer contributes
FromOutput(res) ==
    IF ~Has(res, "output") THEN << >>
    ELSE LET output == res["output"]
         IN  IF IsDict(output)
             THEN (IF Has(output.val, "type") THEN << output.val >> ELSE << >>)
             ELSE IF IsList(output) THEN TypedItems(output.val)
             ELSE << >>

\* (mutant of FromStep: a dict is looked at for "type" before its "shapes" list)
FromStep_TypeFirst(step) ==
    IF Len(step) < 2 THEN << >>
    ELSE LET tool_output == step[2]
         IN  IF IsDict(tool_output)
             THEN LET d == tool_output.val
                  IN  IF Has(d, "type") THEN << d >>
                      ELSE IF Has(d, "shapes") /\ IsList(d["shapes"])
                      THEN TypedItems(d["shapes"].val)
                      ELSE IF Has(d, "command") THEN << d >>
                      ELSE << >>
             ELSE IF IsList(tool_output) THEN TypedItems(tool_output.val)
             ELSE << >>

\* lines 404-424: what one intermediate step contributes
FromStep(step) ==
    IF Len(step) < 2 THEN << >>
    ELSE LET tool_output == step[2]
         IN  IF IsDict(tool_output)
             THEN LET d == tool_output.val
                  IN  IF Has(d, "shapes") /\ IsList(d["shapes"])
                      THEN TypedItems(d["shapes"].val)
                      ELSE IF Has(d, "type") THEN << d >>
                      ELSE IF Has(d, "command") THEN << d >>
                      ELSE << >>
             ELSE IF IsList(tool_output) THEN TypedItems(tool_output.val)
             ELSE << >>

\* (mutant of FromSteps: the records of a step are put before those found so far)
RECURSIVE FromSteps_Prepend(_)
FromSteps_Prepend(steps) ==
    IF steps = << >> THEN << >>
    ELSE FromSteps_Prepend(Tail(steps)) \o FromStep(Head(steps))

\* lines 402-424: the steps in order, each appending to shapes
RECURSIVE FromSteps(_)
FromSteps(steps) ==
    IF steps = << >> THEN << >>
    ELSE FromStep(Head(steps)) \o FromSteps(Tail(steps))

\* extract_shapes_from_result, for a result that is a dict
extract_shapes_from_result(res) ==
    FromOutput(res) \o
    (IF Has(res, "intermediate_steps") THEN FromSteps(res["intermediate_steps"]) ELSE << >>)

\* lines 334-346: the metadata put on one shape ("" and None are falsy)
TagShape(shape, c) ==
    LET s1 == IF Has(shape, "id") THEN shape ELSE SetKey(shape, "id", "uuid4")
        s2 == SetKey(s1, "isAIGenerated", TRUE)
        s3 == IF c.canvas_id # "" THEN SetKey(s2, "canvasId", c.canvas_id) ELSE s2
        s4 == IF c.user_id # "" THEN SetKey(s3, "createdBy", c.user_id) ELSE s3
    IN  IF c.sid # "" THEN SetKey(s4, "sessionId", c.sid) ELSE s4

TagShapes(shapes, c) == [ i \in 1..Len(shapes) |-> TagShape(shapes[i], c) ]

\* (mutant of SuccessResult: success is what the tool calls reported)
SuccessResult_FromTools(res, c) ==
    [ success |-> \A i \in DOMAIN res["intermediate_steps"] :
                    LET o == res["intermediate_steps"][i][2]
                    IN  (IsDict(o) /\ Has(o.val, "success")) => o.val["success"],
      message |-> IF Has(res, "output") THEN res["output"]
                  ELSE Str("Successfully executed command"),
      shapes |-> TagShapes(extract_shapes_from_result(res), c) ]

\* lines 349-355
SuccessResult(res, c) ==
    [ success |-> TRUE,
      message |-> IF Has(res, "output") THEN res["output"]
                  ELSE Str("Successfully executed command"),
      shapes |-> TagShapes(extract_shapes_from_result(res), c) ]

\* lines 323-328
TimeoutResult ==
    [ success |-> FALSE,
      message |-> Str("Command took too long to execute (timeout after 20 seconds)"),
      shapes |-> << >>,
      error |-> "Timeout after 20 seconds" ]

\* (mutant of FailureResult: the error field left out)
FailureResult_NoError(cause) ==
    [ success |-> FALSE,
      message |-> Str("Failed to execute command"),
      shapes |-> << >> ]

\* lines 362-367
FailureResult(cause) ==
    [ success |-> FALSE,
      message |-> Str("Failed to execute command"),
      shapes |-> << >>,
      error |-> cause ]

\* what agent.invoke can return: a final text and no tool call; a final text after
\* one tool call whose output is a shape; something that is no dict
CircleShape == [type |-> "circle", x |-> 300, y |-> 200, fill |-> "#FF0000"]
EngineResults ==
    { Dict([output |-> Str("nothing to do"), intermediate_steps |-> << >>]),
      Dict([output |-> Str("created"),
            intermediate_steps |-> << << "action", Dict(CircleShape) >> >>]),
      NoneVal }

\* ------------------------------------------- canvas_agent.py: the threads
NoCall == [sid |-> "s1", cmd |-> "c1", canvas_id |-> "main-canvas", user_id |-> ""]
NoLoc == [cur_tools |-> 0, cur_prompts |-> 0, in_init |-> FALSE,
          reason |-> "none", tmp |-> 0, agent |-> NoRef, memory |-> NoRef]
\* what is recorded about a call for the properties below: the initialize_agent
\* calls it made, the agent it created, whether the stat of line 295 differed from
\* the stored times, what check_files_changed answered there, whether the 20
\* seconds ran out, the exception raised, the invocations submitted
NoObs == [inits |-> 0, made |-> NoRef, mismatch |-> FALSE, changed |-> FALSE,
          timed_out |-> FALSE, cause |-> "none", invoked |-> 0]
NoResult == [none |-> TRUE]
\* nothing called yet
NoToolRet == [tool |-> "none", args |-> << >>, ret |-> [success |-> FALSE], calls |-> << >>]
NoColor == << "?" >>
NoColorOut == [n |-> 0, once |-> NoColor, twice |-> NoColor]
NoWorker == [st |-> "none"]

\* how a check_agent_health call ended: its return value or "raised"
NoHealth == [val |-> "none"]
NoStats == [none |-> TRUE]
\* a SessionManager call of a thread: the method, its argument, where it is
NoSm == [op |-> "none", sid |-> "s1", at |-> "none", ret |-> NoRef]

\* extract_shapes_from_result on its own: no case yet, no output yet
NoCase == [final |-> 0, tools |-> << >>]
NoOut == [done |-> FALSE, shapes |-> << >>]

Busy(t) == pc[t] \notin {"idle", "done"}

Init ==
    /\ sessions = << >>
    /\ hist = [ h \in 1..(MaxHandles + 1) |-> << >> ]
    /\ next_handle = 0
    /\ now = 0
    /\ last_get = [ sid \in SessionIds |-> [h |-> NoRef, first |-> 0, t |-> 0] ]
    /\ api_ret = [op |-> "none", sid |-> "s1", val |-> 0]
    /\ global_agent = NoRef
    /\ agent_creation_count = 0
    /\ tools_file_mtime = NoMtime
    /\ prompts_file_mtime = NoMtime
    /\ files = [tools |-> 1, prompts |-> 1]
    /\ api_key \in Credentials
    /\ started = FALSE
    /\ mods = 0
    /\ executes = 0
    /\ next_agent = 0
    /\ dirty = FALSE
    /\ init_calls = 0
    /\ pc = [ t \in Threads |-> "idle" ]
    /\ call = [ t \in Threads |-> NoCall ]
    /\ loc = [ t \in Threads |-> NoLoc ]
    /\ worker = [ t \in Threads |-> NoWorker ]
    /\ result = [ t \in Threads |-> NoResult ]
    /\ obs = [ t \in Threads |-> NoObs ]
    /\ last_health_check = NoCheck
    /\ monitor = "none"
    /\ probes = 0
    /\ health_ret = NoHealth
    /\ stats_ret = NoStats
    /\ lock = "free"
    /\ sm = [ t \in Threads |-> NoSm ]
    /\ norm_in = NoCase
    /\ norm_out = NoOut
    /\ store = << >>
    /\ next_id = 0
    /\ tool_calls = 0
    /\ tool_ret = NoToolRet
    /\ cmd_ret = NoResult
    /\ color_in = NoColor
    /\ color_out = NoColorOut

\* the server with its key configured (the key plays no part in the session store
\* nor in the normalizer)
InitConfigured == Init /\ Configured(api_key)

\* the server with a key or with none: to create_canvas_agent the placeholder is a
\* key like any other (line 60), so the runs with it are those with a key
InitThreads == Init /\ (HasKey(api_key) => Configured(api_key))

\* what str(e) is for the exceptions the steps of a call can raise
Causes == {"ValueError", "ConstructionError", "KeyError", "EngineError", "TypeError"}
Viewports == {"none", "ok", "bad"}

\* (mutant of except_handler: the exception is re-raised to the caller)
except_handler_reraise(t, cause) ==
    /\ pc' = [pc EXCEPT ![t] = "raised"]
    /\ result' = result

\* (mutant of timeout_handler: no inner handler, the outer one takes the
\* TimeoutError, whose str() is empty)
timeout_handler_generic(t) ==
    /\ pc' = [pc EXCEPT ![t] = "done"]
    /\ result' = [result EXCEPT ![t] = FailureResult("")]

\* lines 357-367: the handler of the outer try
except_handler(t, cause) ==
    /\ pc' = [pc EXCEPT ![t] = "done"]
    /\ result' = [result EXCEPT ![t] = FailureResult(cause)]

\* lines 321-328: the handler of the inner try
timeout_handler(t) ==
    /\ pc' = [pc EXCEPT ![t] = "done"]
    /\ result' = [result EXCEPT ![t] = TimeoutResult]

\* an exception raised inside the outer try
Raise(t, cause) ==
    /\ obs' = [obs EXCEPT ![t].cause = cause]
    /\ except_handler(t, cause)

\* main.py startup_event, lines 254-263: initialize_agent() before any request,
\* then the health monitor task is created
Startup ==
    /\ ~started
    /\ started' = TRUE
    /\ agent_creation_count' = agent_creation_count + 1
    /\ init_calls' = init_calls + 1
    /\ monitor' = "sleeping"
    /\ \/ /\ HasKey(api_key)
          /\ global_agent' = next_agent + 1
          /\ next_agent' = next_agent + 1
          /\ tools_file_mtime' = files.tools
          /\ prompts_file_mtime' = files.prompts
          /\ dirty' = FALSE
       \/ UNCHANGED << global_agent, next_agent, tools_file_mtime, prompts_file_mtime, dirty >>
    /\ UNCHANGED << last_health_check, probes, health_ret, stats_ret, lockVars, normVars, toolVars,
                    sessVars, files, api_key, mods, executes, threadVars >>

\* tools.py, prompts.py or both are saved: st_mtime changes
Modify ==
    /\ mods < MaxMods
    /\ mods' = mods + 1
    /\ dirty' = TRUE
    /\ \E fs \in (SUBSET {"tools", "prompts"}) \ {{}} :
         files' = [ f \in {"tools", "prompts"} |-> IF f \in fs THEN files[f] + 1 ELSE files[f] ]
    /\ UNCHANGED << auxVars, sessVars, agentVars, api_key, started, executes, next_agent, init_calls,
                    threadVars >>

\* execute_canvas_command is called, lines 269-292. The arguments session_id and
\* viewport are drawn at the step that first reads them (lines 308 and 312). What
\* the previous handlers of the event loop returned has been delivered by then.
StartExecute(t) ==
    /\ started
    /\ pc[t] \in {"idle", "done"}
    /\ executes < MaxExecutes
    /\ executes' = executes + 1
    /\ \E cmd \in Commands : call' = [call EXCEPT ![t] = [NoCall EXCEPT !.cmd = cmd]]
    /\ pc' = [pc EXCEPT ![t] = "cfc_stat"]
    /\ loc' = [loc EXCEPT ![t] = NoLoc]
    /\ worker' = [worker EXCEPT ![t] = NoWorker]
    /\ result' = [result EXCEPT ![t] = NoResult]
    /\ obs' = [obs EXCEPT ![t] = NoObs]
    /\ health_ret' = NoHealth
    /\ stats_ret' = NoStats
    /\ UNCHANGED << last_health_check, monitor, probes, lockVars, normVars, toolVars,
                    sessVars, agentVars, files, api_key, started, mods, next_agent,
                    dirty, init_calls >>

\* check_files_changed, lines 129-135: the two stat calls
CfcStat(t) ==
    /\ pc[t] = "cfc_stat"
    /\ loc' = [loc EXCEPT ![t].cur_tools = files.tools, ![t].cur_prompts = files.prompts]
    /\ pc' = [pc EXCEPT ![t] = "cfc_cmp"]
    /\ dirty' = FALSE
    /\ obs' = IF loc[t].in_init THEN obs
              ELSE [obs EXCEPT ![t].mismatch =
                      /\ tools_file_mtime # NoMtime
                      /\ << files.tools, files.prompts >> # << tools_file_mtime, prompts_file_mtime >>]
    /\ UNCHANGED << auxVars, sessVars, agentVars, files, api_key, started, mods, executes, next_agent,
                    init_calls, call, worker, result >>

\* where check_files_changed returns to: line 191 of initialize_agent, whose
\* caller goes on at line 301 or 305, or line 295 of execute_canvas_command
AfterCfc(t, changed) ==
    IF loc[t].in_init
    THEN /\ pc' = [pc EXCEPT ![t] = IF loc[t].reason = "file_change"
                                    THEN "check_none" ELSE "read_agent"]
         /\ loc' = [loc EXCEPT ![t].in_init = FALSE, ![t].cur_tools = 0, ![t].cur_prompts = 0]
         /\ obs' = obs
    ELSE /\ pc' = [pc EXCEPT ![t] = IF changed THEN "init_read" ELSE "check_none"]
         /\ loc' = [loc EXCEPT ![t].reason = IF changed THEN "file_change" ELSE "none",
                              ![t].cur_tools = 0, ![t].cur_prompts = 0]
         /\ obs' = [obs EXCEPT ![t].changed = changed]

\* check_files_changed, lines 138-147: first call records, later calls compare
CfcCompare(t) ==
    /\ pc[t] = "cfc_cmp"
    /\ IF tools_file_mtime = NoMtime
       THEN /\ tools_file_mtime' = loc[t].cur_tools
            /\ prompts_file_mtime' = loc[t].cur_prompts
            /\ AfterCfc(t, FALSE)
       ELSE IF loc[t].cur_tools # tools_file_mtime \/ loc[t].cur_prompts # prompts_file_mtime
       THEN /\ pc' = [pc EXCEPT ![t] = "cfc_upd"]
            /\ UNCHANGED << tools_file_mtime, prompts_file_mtime, loc, obs >>
       ELSE /\ UNCHANGED << tools_file_mtime, prompts_file_mtime >>
            /\ AfterCfc(t, FALSE)
    /\ UNCHANGED << auxVars, sessVars, global_agent, agent_creation_count, envVars, call, worker, result >>

\* (mutant of CfcUpdate: the new times are not stored)
CfcUpdate_NoStore(t) ==
    /\ pc[t] = "cfc_upd"
    /\ AfterCfc(t, TRUE)
    /\ UNCHANGED << auxVars, sessVars, agentVars, envVars, call, worker, result >>

\* (mutant of CfcUpdate: only the time of tools.py is stored)
CfcUpdate_ToolsOnly(t) ==
    /\ pc[t] = "cfc_upd"
    /\ tools_file_mtime' = loc[t].cur_tools
    /\ AfterCfc(t, TRUE)
    /\ UNCHANGED << auxVars, sessVars, global_agent, agent_creation_count, prompts_file_mtime,
                    envVars, call, worker, result >>

\* check_files_changed, lines 148-162: log, store the new times, return True
CfcUpdate(t) ==
    /\ pc[t] = "cfc_upd"
    /\ tools_file_mtime' = loc[t].cur_tools
    /\ prompts_file_mtime' = loc[t].cur_prompts
    /\ AfterCfc(t, TRUE)
    /\ UNCHANGED << auxVars, sessVars, global_agent, agent_creation_count, envVars, call, worker, result >>

\* initialize_agent, line 180: _agent_creation_count += 1, the read
InitCountRead(t) ==
    /\ pc[t] = "init_read"
    /\ loc' = [loc EXCEPT ![t].tmp = agent_creation_count]
    /\ pc' = [pc EXCEPT ![t] = "init_write"]
    /\ UNCHANGED << auxVars, sessVars, agentVars, envVars, call, worker, result, obs >>

\* (mutant of InitCountWrite: the count is written back as it was read)
InitCountWrite_NoIncrement(t) ==
    /\ pc[t] = "init_write"
    /\ agent_creation_count' = loc[t].tmp
    /\ obs' = [obs EXCEPT ![t].inits = @ + 1]
    /\ init_calls' = init_calls + 1
    /\ loc' = [loc EXCEPT ![t].tmp = 0]
    /\ pc' = [pc EXCEPT ![t] = "init_create"]
    /\ UNCHANGED << auxVars, sessVars, global_agent, tools_file_mtime, prompts_file_mtime,
                    files, api_key, started, mods, executes, next_agent, dirty,
                    call, worker, result >>

\* initialize_agent, line 180: _agent_creation_count += 1, the write
InitCountWrite(t) ==
    /\ pc[t] = "init_write"
    /\ agent_creation_count' = loc[t].tmp + 1
    /\ obs' = [obs EXCEPT ![t].inits = @ + 1]
    /\ init_calls' = init_calls + 1
    /\ loc' = [loc EXCEPT ![t].tmp = 0]
    /\ pc' = [pc EXCEPT ![t] = "init_create"]
    /\ UNCHANGED << auxVars, sessVars, global_agent, tools_file_mtime, prompts_file_mtime,
                    files, api_key, started, mods, executes, next_agent, dirty,
                    call, worker, result >>

\* the reference initialize_agent publishes: a new AgentExecutor
NewAgent(t) == next_agent + 1

\* (mutant of InitCreate: a failed creation clears the reference)
InitCreate_ClearsOnFailure(t) ==
    /\ pc[t] = "init_create"
    /\ \/ /\ HasKey(api_key)
          /\ global_agent' = NewAgent(t)
          /\ next_agent' = next_agent + 1
          /\ obs' = [obs EXCEPT ![t].made = next_agent + 1]
          /\ loc' = [loc EXCEPT ![t].in_init = TRUE]
          /\ pc' = [pc EXCEPT ![t] = "cfc_stat"]
          /\ UNCHANGED result
       \/ /\ Raise(t, IF HasKey(api_key) THEN "ConstructionError" ELSE "ValueError")
          /\ global_agent' = NoRef
          /\ UNCHANGED << next_agent, loc >>
    /\ UNCHANGED << auxVars, sessVars, agent_creation_count, tools_file_mtime, prompts_file_mtime,
                    files, api_key, started, mods, executes, dirty, init_calls, call, worker >>

\* initialize_agent, lines 186-203: create_canvas_agent raises ValueError without
\* the API key and may fail in a constructor; on success the new agent is stored
InitCreate(t) ==
    /\ pc[t] = "init_create"
    /\ \/ /\ HasKey(api_key)
          /\ global_agent' = NewAgent(t)
          /\ next_agent' = next_agent + 1
          /\ obs' = [obs EXCEPT ![t].made = next_agent + 1]
          /\ loc' = [loc EXCEPT ![t].in_init = TRUE]
          /\ pc' = [pc EXCEPT ![t] = "cfc_stat"]
          /\ UNCHANGED result
       \/ /\ Raise(t, IF HasKey(api_key) THEN "ConstructionError" ELSE "ValueError")
          /\ UNCHANGED << global_agent, next_agent, loc >>
    /\ UNCHANGED << auxVars, sessVars, agent_creation_count, tools_file_mtime, prompts_file_mtime,
                    files, api_key, started, mods, executes, dirty, init_calls, call, worker >>

\* (mutant of CheckNone: the reference is read whether or not an agent is present)
CheckNone_Skip(t) ==
    /\ pc[t] = "check_none"
    /\ pc' = [pc EXCEPT ![t] = "read_agent"]
    /\ UNCHANGED << auxVars, sessVars, agentVars, envVars, call, loc, worker, result, obs >>

\* line 301: if _global_agent is None: initialize_agent(reason="missing")
CheckNone(t) ==
    /\ pc[t] = "check_none"
    /\ IF global_agent = NoRef
       THEN /\ pc' = [pc EXCEPT ![t] = "init_read"]
            /\ loc' = [loc EXCEPT ![t].reason = "missing"]
       ELSE /\ pc' = [pc EXCEPT ![t] = "read_agent"]
            /\ loc' = loc
    /\ UNCHANGED << auxVars, sessVars, agentVars, envVars, call, worker, result, obs >>

\* (mutant of CurrentAgent: the first agent created is kept and reused)
CurrentAgent_First(t) == IF global_agent = NoRef THEN NoRef ELSE 1

\* the reference line 305 reads
CurrentAgent(t) == global_agent

\* line 305: agent = _global_agent
ReadAgent(t) ==
    /\ pc[t] = "read_agent"
    /\ loc' = [loc EXCEPT ![t].agent = CurrentAgent(t)]
    /\ pc' = [pc EXCEPT ![t] = "get_memory"]
    /\ UNCHANGED << auxVars, sessVars, agentVars, envVars, call, worker, result, obs >>

\* line 308: memory = SessionManager.get_memory(session_id, k=6)
ExecGetMemory(t) ==
    /\ pc[t] = "get_memory"
    /\ \E sid \in SessionIds :
         /\ get_memory(sid)
         /\ call' = [call EXCEPT ![t].sid = sid]
         /\ loc' = [loc EXCEPT ![t].memory = sessions'[sid].memory]
    /\ pc' = [pc EXCEPT ![t] = "compose"]
    /\ UNCHANGED << auxVars, agentVars, envVars, worker, result, obs >>

\* lines 311-319: the input is composed (a viewport without its four keys raises
\* KeyError) and agent.invoke is submitted to the call's worker thread
Submit(t) ==
    /\ pc[t] = "compose"
    /\ \E viewport \in Viewports :
         IF viewport = "bad"
         THEN /\ Raise(t, "KeyError")
              /\ UNCHANGED worker
         ELSE /\ worker' = [worker EXCEPT ![t] = [st |-> "running"]]
              /\ pc' = [pc EXCEPT ![t] = "waiting"]
              /\ obs' = [obs EXCEPT ![t].invoked = @ + 1]
              /\ UNCHANGED result
    /\ UNCHANGED << auxVars, sessVars, agentVars, envVars, call, loc >>

\* what a completed invocation leaves in the session's memory object: the agent
\* was built with memory=None (line 188) and invoke is given the input alone
\* (line 319), so nothing is saved
InvokeSaves(t, h) == hist[h]

\* the worker thread: agent.invoke returns
WorkerReturn(t) ==
    /\ worker[t].st = "running"
    /\ \E r \in EngineResults : worker' = [worker EXCEPT ![t] = [st |-> "returned", out |-> r]]
    /\ hist' = [hist EXCEPT ![loc[t].memory] = InvokeSaves(t, loc[t].memory)]
    /\ UNCHANGED << auxVars, sessions, next_handle, now, last_get, api_ret,
                    agentVars, envVars, pc, call, loc, result, obs >>

\* the worker thread: agent.invoke raises
WorkerRaise(t) ==
    /\ worker[t].st = "running"
    /\ worker' = [worker EXCEPT ![t] = [st |-> "raised"]]
    /\ UNCHANGED << auxVars, sessVars, agentVars, envVars, pc, call, loc, result, obs >>

\* (mutant of Deadline: the timeout cancels the running invocation)
Deadline_Cancels(t) ==
    /\ pc[t] = "waiting"
    /\ worker[t].st = "running"
    /\ pc' = [pc EXCEPT ![t] = "shutdown_wait"]
    /\ obs' = [obs EXCEPT ![t].timed_out = TRUE]
    /\ worker' = [worker EXCEPT ![t] = [st |-> "raised"]]
    /\ UNCHANGED << auxVars, sessVars, agentVars, envVars, call, loc, result >>

\* line 320: future.result gives up after 20 seconds; leaving the with block
\* then calls executor.shutdown(wait=True)
Deadline(t) ==
    /\ pc[t] = "waiting"
    /\ worker[t].st = "running"
    /\ pc' = [pc EXCEPT ![t] = "shutdown_wait"]
    /\ obs' = [obs EXCEPT ![t].timed_out = TRUE]
    /\ UNCHANGED << auxVars, sessVars, agentVars, envVars, call, loc, worker, result >>

\* whether a thread that left the with block on a timeout can go on
ShutdownDone(t) == worker[t].st # "running"

\* lines 321-328, once shutdown(wait=True) has joined the worker
TimeoutReturn(t) ==
    /\ pc[t] = "shutdown_wait"
    /\ ShutdownDone(t)
    /\ timeout_handler(t)
    /\ UNCHANGED << auxVars, sessVars, agentVars, envVars, call, loc, worker, obs >>

\* lines 320, 330-355: the result arrived in time, is normalized and returned
FutureResult(t) ==
    /\ pc[t] = "waiting"
    /\ worker[t].st = "returned"
    /\ IF IsDict(worker[t].out)
       THEN /\ result' = [result EXCEPT ![t] = SuccessResult(worker[t].out.val, call[t])]
            /\ pc' = [pc EXCEPT ![t] = "done"]
            /\ obs' = obs
       ELSE Raise(t, "TypeError")
    /\ worker' = [worker EXCEPT ![t] = NoWorker]
    /\ UNCHANGED << auxVars, sessVars, agentVars, envVars, call, loc >>

\* (mutant of FutureRaise: after an invocation error the command is submitted
\* again)
FutureRaise_Retry(t) ==
    /\ pc[t] = "waiting"
    /\ worker[t].st = "raised"
    /\ pc' = [pc EXCEPT ![t] = "compose"]
    /\ worker' = [worker EXCEPT ![t] = NoWorker]
    /\ UNCHANGED << auxVars, sessVars, agentVars, envVars, call, loc, result, obs >>

\* line 320: future.result re-raises what agent.invoke raised
FutureRaise(t) ==
    /\ pc[t] = "waiting"
    /\ worker[t].st = "raised"
    /\ Raise(t, "EngineError")
    /\ worker' = [worker EXCEPT ![t] = NoWorker]
    /\ UNCHANGED << auxVars, sessVars, agentVars, envVars, call, loc >>

\* ------------------- canvas_agent.py: extract_shapes_from_result on its own
\* shape records as the tools return them
RectA == [id |-> "a", type |-> "rectangle"]
RectB == [id |-> "b", type |-> "rectangle"]
TextA == [id |-> "a", type |-> "text"]
CircleC == [id |-> "c", type |-> "circle"]
TextB == [id |-> "b", type |-> "text"]
MoveCmd == [command |-> "move", target |-> "a"]
Untyped == [x |-> 1]

\* the tool outputs of the cases, by number: 1 a dict with a "shapes" list of three
\* shapes, 2 a dict with type circle, 3 a list of two shapes, 4 a command dict,
\* 5 a dict with neither, 6 a text, 7 a list of a shape, an untyped dict and a
\* text; 8 stands for a step of one element. The dicts a tool can answer with
\* have the numbers 11 to 18: 11 a wrapper with a "shapes" list, 12 a wrapper
\* that carries "type" and "command" too, 13 a dict with type, 14 a dict with
\* type and command, 15 a command dict without type, 16 the envelope of success,
\* message and shape_id, 17 a dict whose "shapes" is no list and that carries a
\* command, 18 a wrapper with type and command whose list is empty
ToolKinds == 1..8
ToolOutput(k) ==
    CASE k = 1 -> Dict([success |-> TRUE,
                        shapes |-> List(<< Dict(RectA), Dict(RectB), Dict(TextA) >>)])
      [] k = 2 -> Dict(CircleShape)
      [] k = 3 -> List(<< Dict(CircleC), Dict(TextB) >>)
      [] k = 4 -> Dict(MoveCmd)
      [] k = 5 -> Dict(Untyped)
      [] k = 6 -> Str("done")
      [] k = 7 -> List(<< Dict(CircleC), Dict(Untyped), Str("x") >>)
      [] k = 11 -> Dict([success |-> TRUE,
                         shapes |-> List(<< Dict(RectA), Dict(Untyped), Dict(TextA) >>)])
      [] k = 12 -> Dict([type |-> "group", command |-> "arrange",
                         shapes |-> List(<< Dict(RectB), Dict(CircleC) >>)])
      [] k = 13 -> Dict(CircleShape)
      [] k = 14 -> Dict([type |-> "circle", command |-> "create", x |-> 5])
      [] k = 15 -> Dict(MoveCmd)
      [] k = 16 -> Dict([success |-> TRUE, message |-> Str("Created shape"),
                         shape_id |-> "shape_1"])
      [] k = 17 -> Dict([shapes |-> Str("none"), command |-> "clear"])
      [] k = 18 -> Dict([type |-> "group", command |-> "arrange", shapes |-> List(<< >>)])
      [] OTHER -> NoneVal

\* a step of intermediate_steps: (action, tool output)
StepOf(k) == IF k = 8 THEN << "action" >> ELSE << "action", ToolOutput(k) >>

\* the final answers of the cases, by number: 1 a text, 2 a dict without type,
\* 3 a list without a typed dict, 4 a dict with type circle, 5 a list of a shape
\* and an untyped dict; 6 stands for a result without "output"
FinalKinds == 1..6
FinalOutput(k) ==
    CASE k = 1 -> Str("Created 3 shapes")
      [] k = 2 -> Dict(MoveCmd)
      [] k = 3 -> List(<< Dict(Untyped), Str("x") >>)
      [] k = 4 -> Dict(CircleShape)
      [] OTHER -> List(<< Dict(CircleC), Dict(Untyped) >>)

\* the result dict of a case
NormResult(c) ==
    LET steps == [ i \in 1..Len(c.tools) |-> StepOf(c.tools[i]) ]
    IN  IF c.final = 6 THEN [ intermediate_steps |-> steps ]
        ELSE [ output |-> FinalOutput(c.final), intermediate_steps |-> steps ]

NormCases ==
    { [final |-> f, tools |-> ts] :
        f \in FinalKinds, ts \in UNION { [1..n -> ToolKinds] : n \in 0..MaxSteps } }

\* a result arrives
NormPick ==
    /\ norm_in = NoCase
    /\ \E c \in NormCases : norm_in' = c
    /\ UNCHANGED << norm_out, toolVars, healthVars, lockVars, sessVars, agentVars, envVars, threadVars >>

\* a result arrives whose steps all returned dicts
DictKinds == 11..18
NormPickDict ==
    /\ norm_in = NoCase
    /\ \E n \in 1..MaxSteps : \E ts \in [1..n -> DictKinds] :
         norm_in' = [final |-> 1, tools |-> ts]
    /\ UNCHANGED << norm_out, toolVars, healthVars, lockVars, sessVars, agentVars, envVars, threadVars >>

\* line 331: shapes = extract_shapes_from_result(result)
NormApply ==
    /\ norm_in # NoCase
    /\ ~norm_out.done
    /\ norm_out' = [done |-> TRUE, shapes |-> extract_shapes_from_result(NormResult(norm_in))]
    /\ UNCHANGED << norm_in, toolVars, healthVars, lockVars, sessVars, agentVars, envVars, threadVars >>

\* ------------------------------- session_manager.py at the grain of _lock
\* Each SessionManager method is `with _lock:` around its whole body; a call is
\* modelled as entering the with block, running the body, leaving the block.
SmOps == {"get_memory", "clear_session", "get_active_sessions_count"}

\* (mutant of lock_acquire: the block is entered without waiting for the lock)
lock_acquire_NoWait(t) == lock' = t

\* lines 36, 71, 91: `with _lock:` is entered once the lock is free
lock_acquire(t) == lock = "free" /\ lock' = t

\* leaving the with block, at the return of lines 58, 74, 75 and 92
lock_release(t) == lock' = "free"

\* a thread calls a SessionManager method
SmCall(t, op, session_id) ==
    /\ sm[t].at = "none"
    /\ sm' = [sm EXCEPT ![t] = [op |-> op, sid |-> session_id, at |-> "acquire", ret |-> NoRef]]
    /\ UNCHANGED << lock, healthVars, normVars, toolVars, sessVars, agentVars, envVars, threadVars >>

SmAcquire(t) ==
    /\ sm[t].at = "acquire"
    /\ lock_acquire(t)
    /\ sm' = [sm EXCEPT ![t].at = "body"]
    /\ UNCHANGED << healthVars, normVars, toolVars, sessVars, agentVars, envVars, threadVars >>

\* the body of the method, lines 37-58, 72-75, 92
SmBody(t) ==
    /\ sm[t].at = "body"
    /\ CASE sm[t].op = "get_memory" -> get_memory(sm[t].sid)
         [] sm[t].op = "clear_session" -> clear_session(sm[t].sid)
         [] OTHER -> CountActive /\ hist' = hist
    /\ sm' = [sm EXCEPT ![t].at = "release", ![t].ret = api_ret'.val]
    /\ UNCHANGED << lock, healthVars, normVars, toolVars, agentVars, envVars, threadVars >>

\* the method returns: to line 308 of execute_canvas_command, which goes on to
\* compose the input, or to another caller
SmRelease(t) ==
    /\ sm[t].at = "release"
    /\ lock_release(t)
    /\ sm' = [sm EXCEPT ![t] = NoSm]
    /\ IF pc[t] = "get_memory"
       THEN /\ call' = [call EXCEPT ![t].sid = sm[t].sid]
            /\ loc' = [loc EXCEPT ![t].memory = sm[t].ret]
            /\ pc' = [pc EXCEPT ![t] = "compose"]
       ELSE UNCHANGED << pc, call, loc >>
    /\ UNCHANGED << healthVars, normVars, toolVars, sessVars, agentVars, envVars, worker, result, obs >>

\* line 308, the call: memory = SessionManager.get_memory(session_id, k=6)
ExecSmCall(t) ==
    /\ pc[t] = "get_memory"
    /\ \E sid \in SessionIds : SmCall(t, "get_memory", sid)

\* another thread of the process uses the SessionManager
ClientSmCall(t) ==
    /\ pc[t] = "idle"
    /\ \E op \in SmOps, sid \in SessionIds :
         /\ op = "get_active_sessions_count" => sid = "s1"
         /\ SmCall(t, op, sid)

\* ------------------------------- canvas_agent.py: health check and stats
\* check_files_changed as a whole, lines 138-164: its answer (whatever it answers,
\* the stored times are the current ones when it returns)
FilesChanged(tm, pm, f) == tm # NoMtime /\ (f.tools # tm \/ f.prompts # pm)

\* the attributes of an AgentExecutor built at lines 96-106
Attrs(a) == IF a = NoRef THEN {} ELSE {"agent", "tools", "memory"}
\* line 235: hasattr(_global_agent, 'agent') and hasattr(_global_agent, 'tools')
HasAttrs(a) == "agent" \in Attrs(a) /\ "tools" \in Attrs(a)

\* how one initialize_agent call can end
InitOutcomes == IF HasKey(api_key) THEN {"ok", "ConstructionError"} ELSE {"ValueError"}

\* (mutant of HealthBranch: the files are not looked at)
HealthBranch_NoFileCheck ==
    IF global_agent = NoRef THEN "health_check_missing"
    ELSE IF ~HasAttrs(global_agent) THEN "health_check_invalid"
    ELSE "passed"

\* check_agent_health, lines 221-245: the branch taken
HealthBranch ==
    IF FilesChanged(tools_file_mtime, prompts_file_mtime, files) THEN "file_change_health_check"
    ELSE IF global_agent = NoRef THEN "health_check_missing"
    ELSE IF ~HasAttrs(global_agent) THEN "health_check_invalid"
    ELSE "passed"

\* the initialize_agent calls of a cycle: one at line 223, 230 or 239, and a second
\* one at line 251 when the call of line 239, which is inside the try, raised
HealthInits(branch, o1) ==
    IF branch = "passed" THEN 0
    ELSE IF branch = "health_check_invalid" /\ o1 # "ok" THEN 2
    ELSE 1

\* whether the cycle's last initialize_agent call created an agent
HealthCreated(branch, o1, o2) ==
    /\ branch # "passed"
    /\ IF branch = "health_check_invalid" /\ o1 # "ok" THEN o2 = "ok" ELSE o1 = "ok"

\* how the call ends: lines 224, 231, 240, 245, 252 return; a failed initialize_agent
\* at line 223, 230 or 251 is in no try block and leaves the call as an exception
HealthEnd(branch, o1, o2) ==
    IF branch = "passed" THEN "true"
    ELSE IF ~HealthCreated(branch, o1, o2) THEN "raised"
    ELSE IF branch = "file_change_health_check" THEN "true"
    ELSE "false"

\* main.py agent_health_monitor, lines 228-230: a cycle of the monitor task. It runs
\* check_agent_health on the event loop, between two requests; an exception that
\* leaves check_agent_health leaves the while loop and ends the task.
HealthCycle ==
    /\ monitor = "sleeping"
    /\ \A t \in Threads : ~Busy(t)
    /\ probes < MaxProbes
    /\ probes' = probes + 1
    /\ last_health_check' = HEALTH_INTERVAL * (probes + 1)
    /\ \E o1 \in InitOutcomes, o2 \in InitOutcomes :
         LET branch == HealthBranch
             inits == HealthInits(branch, o1)
             created == HealthCreated(branch, o1, o2)
             end == HealthEnd(branch, o1, o2)
         IN  /\ agent_creation_count' = agent_creation_count + inits
             /\ init_calls' = init_calls + inits
             /\ global_agent' = IF created THEN next_agent + 1 ELSE global_agent
             /\ next_agent' = IF created THEN next_agent + 1 ELSE next_agent
             /\ health_ret' = [val |-> end]
             /\ monitor' = IF end = "raised" THEN "dead" ELSE "sleeping"
    /\ tools_file_mtime' = files.tools
    /\ prompts_file_mtime' = files.prompts
    /\ dirty' = FALSE
    /\ stats_ret' = NoStats
    /\ UNCHANGED << lockVars, normVars, toolVars, sessVars, files, api_key, started, mods,
                    executes, threadVars >>

\* (mutant of get_agent_stats: the agents created are counted, not the creations
\* attempted)
get_agent_stats_Created ==
    [ is_initialized |-> global_agent # NoRef,
      creation_count |-> next_agent,
      last_health_check |-> IF last_health_check # NoCheck
                            THEN Str(last_health_check) ELSE NoneVal ]

\* get_agent_stats, lines 262-266 (isoformat() of a time, or None)
get_agent_stats ==
    [ is_initialized |-> global_agent # NoRef,
      creation_count |-> agent_creation_count,
      last_health_check |-> IF last_health_check # NoCheck
                            THEN Str(last_health_check) ELSE NoneVal ]

\* main.py get_agent_health, line 139: a request for the statistics
GetStats ==
    /\ started
    /\ \A t \in Threads : ~Busy(t)
    /\ stats_ret' = get_agent_stats
    /\ UNCHANGED << last_health_check, monitor, probes, health_ret, lockVars, normVars, toolVars,
                    sessVars, agentVars, envVars, threadVars >>

\* the steps of a call once it has started
Steps(t) ==
    \/ CfcStat(t) \/ CfcCompare(t) \/ CfcUpdate(t)
    \/ InitCountRead(t) \/ InitCountWrite(t) \/ InitCreate(t)
    \/ CheckNone(t) \/ ReadAgent(t) \/ ExecGetMemory(t) \/ Submit(t)
    \/ WorkerReturn(t) \/ WorkerRaise(t) \/ Deadline(t) \/ TimeoutReturn(t)
    \/ FutureResult(t) \/ FutureRaise(t)

\* The server as main.py runs it: execute_ai_command awaits nothing while it calls
\* execute_canvas_command, so the event loop runs one call at a time.
Main == "t1"

Next ==
    \/ Startup
    \/ Modify
    \/ StartExecute(Main)
    \/ Steps(Main)

Spec == Init /\ [][Next]_vars

\* the same with the health monitor task and the requests for the statistics,
\* which the event loop runs between two commands
NextHealth ==
    \/ Startup
    \/ Modify
    \/ StartExecute(Main)
    \/ Steps(Main)
    \/ HealthCycle
    \/ GetStats

SpecHealth == Init /\ [][NextHealth]_vars

\* execute_canvas_command called from several threads at once, one call a thread
NextThreads ==
    \/ Startup
    \/ Modify
    \/ \E t \in Threads : (pc[t] = "idle" /\ StartExecute(t)) \/ Steps(t)

SpecThreads == InitThreads /\ [][NextThreads]_vars

\* one thread in execute_canvas_command, another using the SessionManager, with
\* the SessionManager methods at the grain of the lock; tools.py and prompts.py
\* are left alone meanwhile
Client == "t2"

StepsLock(t) ==
    \/ CfcStat(t) \/ CfcCompare(t)
    \/ InitCountRead(t) \/ InitCountWrite(t) \/ InitCreate(t)
    \/ CheckNone(t) \/ ReadAgent(t) \/ ExecSmCall(t) \/ Submit(t)
    \/ WorkerReturn(t) \/ WorkerRaise(t) \/ Deadline(t) \/ TimeoutReturn(t)
    \/ FutureResult(t) \/ FutureRaise(t)

NextLock ==
    \/ Startup
    \/ StartExecute(Main)
    \/ StepsLock(Main)
    \/ ClientSmCall(Client)
    \/ \E t \in Threads : SmAcquire(t) \/ SmBody(t) \/ SmRelease(t)

SpecLock == Init /\ [][NextLock]_vars

NextNorm == NormPick \/ NormApply

SpecNorm == InitConfigured /\ [][NextNorm]_vars

NextDict == NormPickDict \/ NormApply

SpecDict == InitConfigured /\ [][NextDict]_vars

NextSessions == ClientGetMemory \/ ClientClear \/ ClientCount \/ ClientSave \/ Tick

SpecSessions == InitConfigured /\ [][NextSessions]_vars

\* ------------------------------------------------ tools.py: colours
\* A str is the sequence of its characters.
UpperLetters == << "A", "B", "C", "D", "E", "F", "G", "H", "I", "J", "K", "L", "M",
                   "N", "O", "P", "Q", "R", "S", "T", "U", "V", "W", "X", "Y", "Z" >>
LowerLetters == << "a", "b", "c", "d", "e", "f", "g", "h", "i", "j", "k", "l", "m",
                   "n", "o", "p", "q", "r", "s", "t", "u", "v", "w", "x", "y", "z" >>
Whitespace == {" ", "\t", "\n"}

\* str.lower()
lower(s) ==
    [ i \in 1..Len(s) |->
        IF \E k \in DOMAIN UpperLetters : UpperLetters[k] = s[i]
        THEN LowerLetters[CHOOSE k \in DOMAIN UpperLetters : UpperLetters[k] = s[i]]
        ELSE s[i] ]

\* str.strip()
strip(s) ==
    LET keep == { i \in 1..Len(s) : s[i] \notin Whitespace }
    IN  IF keep = {} THEN << >>
        ELSE SubSeq(s, CHOOSE i \in keep : \A j \in keep : i <= j,
                       CHOOSE i \in keep : \A j \in keep : j <= i)

\* COLOR_MAP, lines 27-42: (name, hex) in the order of the source
COLOR_MAP ==
    << << << "r", "e", "d" >>, << "#", "F", "F", "0", "0", "0", "0" >> >>,
       << << "b", "l", "u", "e" >>, << "#", "0", "0", "0", "0", "F", "F" >> >>,
       << << "g", "r", "e", "e", "n" >>, << "#", "0", "0", "F", "F", "0", "0" >> >>,
       << << "y", "e", "l", "l", "o", "w" >>, << "#", "F", "F", "F", "F", "0", "0" >> >>,
       << << "p", "u", "r", "p", "l", "e" >>, << "#", "8", "0", "0", "0", "8", "0" >> >>,
       << << "p", "i", "n", "k" >>, << "#", "F", "F", "C", "0", "C", "B" >> >>,
       << << "o", "r", "a", "n", "g", "e" >>, << "#", "F", "F", "A", "5", "0", "0" >> >>,
       << << "b", "l", "a", "c", "k" >>, << "#", "0", "0", "0", "0", "0", "0" >> >>,
       << << "w", "h", "i", "t", "e" >>, << "#", "F", "F", "F", "F", "F", "F" >> >>,
       << << "g", "r", "a", "y" >>, << "#", "8", "0", "8", "0", "8", "0" >> >>,
       << << "g", "r", "e", "y" >>, << "#", "8", "0", "8", "0", "8", "0" >> >>,
       << << "b", "r", "o", "w", "n" >>, << "#", "A", "5", "2", "A", "2", "A" >> >>,
       << << "c", "y", "a", "n" >>, << "#", "0", "0", "F", "F", "F", "F" >> >>,
       << << "m", "a", "g", "e", "n", "t", "a" >>, << "#", "F", "F", "0", "0", "F", "F" >> >> >>

\* COLOR_MAP.get(key, default)
COLOR_MAP_get(key, default) ==
    IF \E i \in DOMAIN COLOR_MAP : COLOR_MAP[i][1] = key
    THEN COLOR_MAP[CHOOSE i \in DOMAIN COLOR_MAP : COLOR_MAP[i][1] = key][2]
    ELSE default

\* (mutant of normalize_color: an unrecognized colour comes back lowered and
\* stripped)
normalize_color_Lowered(color) ==
    COLOR_MAP_get(strip(lower(color)), strip(lower(color)))

\* normalize_color, lines 50-53
normalize_color(color) ==
    LET color_lower == strip(lower(color))
    IN  COLOR_MAP_get(color_lower, color)

\* the colours normalize_color is applied to: every str of at most MaxColorLen
\* characters of ColorAlphabet, every palette name as written, capitalized and in
\* capitals between blanks, and some hex codes
ColorAlphabet == {"r", "R", "e", "E", "d", "D", " ", "#"}
ColorExamples ==
    { << "r", "e", "d" >>,
      << "R", "e", "d" >>,
      << " ", "R", "E", "D", "\t" >>,
      << "b", "l", "u", "e" >>,
      << "B", "l", "u", "e" >>,
      << " ", "B", "L", "U", "E", "\t" >>,
      << "g", "r", "e", "e", "n" >>,
      << "G", "r", "e", "e", "n" >>,
      << " ", "G", "R", "E", "E", "N", "\t" >>,
      << "y", "e", "l", "l", "o", "w" >>,
      << "Y", "e", "l", "l", "o", "w" >>,
      << " ", "Y", "E", "L", "L", "O", "W", "\t" >>,
      << "p", "u", "r", "p", "l", "e" >>,
      << "P", "u", "r", "p", "l", "e" >>,
      << " ", "P", "U", "R", "P", "L", "E", "\t" >>,
      << "p", "i", "n", "k" >>,
      << "P", "i", "n", "k" >>,
      << " ", "P", "I", "N", "K", "\t" >>,
      << "o", "r", "a", "n", "g", "e" >>,
      << "O", "r", "a", "n", "g", "e" >>,
      << " ", "O", "R", "A", "N", "G", "E", "\t" >>,
      << "b", "l", "a", "c", "k" >>,
      << "B", "l", "a", "c", "k" >>,
      << " ", "B", "L", "A", "C", "K", "\t" >>,
      << "w", "h", "i", "t", "e" >>,
      << "W", "h", "i", "t", "e" >>,
      << " ", "W", "H", "I", "T", "E", "\t" >>,
      << "g", "r", "a", "y" >>,
      << "G", "r", "a", "y" >>,
      << " ", "G", "R", "A", "Y", "\t" >>,
      << "g", "r", "e", "y" >>,
      << "G", "r", "e", "y" >>,
      << " ", "G", "R", "E", "Y", "\t" >>,
      << "b", "r", "o", "w", "n" >>,
      << "B", "r", "o", "w", "n" >>,
      << " ", "B", "R", "O", "W", "N", "\t" >>,
      << "c", "y", "a", "n" >>,
      << "C", "y", "a", "n" >>,
      << " ", "C", "Y", "A", "N", "\t" >>,
      << "m", "a", "g", "e", "n", "t", "a" >>,
      << "M", "a", "g", "e", "n", "t", "a" >>,
      << " ", "M", "A", "G", "E", "N", "T", "A", "\t" >>,
      << "#", "a", "b", "c", "1", "2", "3" >>,
      << "#", "F", "F", "0", "0", "0", "0" >>,
      << " ", "#", "0", "0", "0", "0", "f", "f", " " >>,
      << "t", "e", "a", "l" >>,
      << "L", "i", "g", "h", "t", " ", "B", "l", "u", "e" >> }
ColorInputs ==
    ColorExamples \cup UNION { [1..n -> ColorAlphabet] : n \in 0..MaxColorLen }


\* a colour reaches normalize_color
ColorPick ==
    /\ color_in = NoColor
    /\ \E c \in ColorInputs : color_in' = c
    /\ UNCHANGED << color_out, storeVars,
                    healthVars, lockVars, normVars, sessVars, agentVars, envVars, threadVars >>

\* normalize_color is applied, to the colour and then to its own result
ColorApply ==
    /\ color_in # NoColor
    /\ color_out.n < 2
    /\ color_out' = IF color_out.n = 0
                    THEN [color_out EXCEPT !.n = 1, !.once = normalize_color(color_in)]
                    ELSE [color_out EXCEPT !.n = 2, !.twice = normalize_color(color_out.once)]
    /\ UNCHANGED << color_in, storeVars,
                    healthVars, lockVars, normVars, sessVars, agentVars, envVars, threadVars >>

\* ------------------------------------- firebase_service.py: the shape store
\* The documents of canvases/main-canvas/shapes, by document id. A document is a
\* function from field names to values.
Merge(d, u) ==
    [ k \in (DOMAIN d) \cup (DOMAIN u) |-> IF k \in DOMAIN u THEN u[k] ELSE d[k] ]
Without(d, ks) == [ k \in (DOMAIN d) \ ks |-> d[k] ]
Get(d, k, default) == IF k \in DOMAIN d THEN d[k] ELSE default

\* uuid.uuid4() as a str: the n-th id generated is new
Uuids == << "u1", "u2", "u3", "u4", "u5", "u6", "u7", "u8", "u9", "u10", "u11", "u12", "u13", "u14", "u15", "u16" >>
generate_shape_id(n) == Uuids[n + 1]
\* f"{generate_shape_id()}-{i}" of create_random_shapes_simple, for i = 0
SuffixedIds == << "u1-0", "u2-0", "u3-0", "u4-0", "u5-0", "u6-0", "u7-0", "u8-0", "u9-0", "u10-0", "u11-0", "u12-0", "u13-0", "u14-0", "u15-0", "u16-0" >>
\* the document ids in ascending order, the order in which stream() yields them
DocIds == << "f1", "f2", "f3", "u1", "u1-0", "u2", "u2-0", "u3", "u3-0", "u4", "u4-0", "u5", "u5-0", "u6", "u6-0", "u7", "u7-0", "u8", "u8-0", "u9", "u9-0" >>
Rank(id) == CHOOSE i \in DOMAIN DocIds : DocIds[i] = id

\* firestore.SERVER_TIMESTAMP at time ts, and the session id the tools pass
Created(shape, ts) ==
    Merge(shape, [createdAt |-> ts, updatedAt |-> ts, sessionId |-> "ai-agent"])
Updated(updates, ts) ==
    Merge(updates, [updatedAt |-> ts, sessionId |-> "ai-agent"])

\* get_all_shapes, lines 101-118: the documents in stream order, each with its
\* id; an exception gives the empty list
get_all_shapes(st, ok) ==
    IF ~ok THEN << >>
    ELSE LET ids == DOMAIN st
         IN  [ p \in 1..Cardinality(ids) |->
                 LET id == CHOOSE i \in ids :
                             Cardinality({ o \in ids : Rank(o) < Rank(i) }) = p - 1
                 IN  SetKey(st[id], "id", id) ]

\* (mutant of update_shape_in_firestore: the document is written with set(), which
\* replaces it or creates it)
update_shape_in_firestore_Set(st, shape_id, updates, ok, ts) ==
    IF ok
    THEN [st |-> SetKey(st, shape_id, Updated(updates, ts)), val |-> TRUE]
    ELSE [st |-> st, val |-> FALSE]

\* update_shape, lines 176-196: doc_ref.update() merges the fields into the
\* document and raises NotFound when there is none
update_shape_in_firestore(st, shape_id, updates, ok, ts) ==
    IF ok /\ shape_id \in DOMAIN st
    THEN [st |-> [st EXCEPT ![shape_id] = Merge(@, Updated(updates, ts))], val |-> TRUE]
    ELSE [st |-> st, val |-> FALSE]

\* create_shape, lines 220-246: doc_ref.set()
create_shape_in_firestore(st, shape, ok, ts) ==
    IF ok /\ Has(shape, "id")
    THEN [st |-> SetKey(st, shape["id"], Created(shape, ts)), val |-> TRUE]
    ELSE [st |-> st, val |-> FALSE]

\* delete_shape, lines 265-275: doc_ref.delete(), which succeeds on a missing
\* document too
delete_shape_from_firestore(st, shape_id, ok) ==
    IF ok
    THEN [st |-> Without(st, {shape_id}), val |-> TRUE]
    ELSE [st |-> st, val |-> FALSE]

\* create_shapes_batch, lines 298-330: one batch of set() calls, committed whole
create_shapes_batch_in_firestore(st, shapes, ok, ts) ==
    IF ok /\ \A i \in DOMAIN shapes : Has(shapes[i], "id")
    THEN LET ids == { shapes[i]["id"] : i \in DOMAIN shapes }
             last(id) == CHOOSE i \in DOMAIN shapes :
                           /\ shapes[i]["id"] = id
                           /\ \A j \in DOMAIN shapes : shapes[j]["id"] = id => j <= i
         IN  [st |-> [ k \in (DOMAIN st) \cup ids |->
                         IF k \in ids THEN Created(shapes[last(k)], ts) ELSE st[k] ],
              val |-> TRUE]
    ELSE [st |-> st, val |-> FALSE]

\* updateShapesBatch of the store interface: every record's fields are merged
\* into the document its shape_id names, in one batch that fails whole (as
\* update_shape does) when a document is missing
RECURSIVE ApplyUpdates(_, _, _)
ApplyUpdates(st, updates, ts) ==
    IF updates = << >> THEN st
    ELSE LET u == Head(updates)
         IN  ApplyUpdates([st EXCEPT ![u["shape_id"]] =
                               Merge(@, Updated(Without(u, {"shape_id"}), ts))],
                          Tail(updates), ts)

update_shapes_batch_in_firestore(st, updates, ok, ts) ==
    IF ok /\ \A i \in DOMAIN updates : updates[i]["shape_id"] \in DOMAIN st
    THEN [st |-> ApplyUpdates(st, updates, ts), val |-> TRUE]
    ELSE [st |-> st, val |-> FALSE]

\* deleteShapesBatch of the store interface
delete_shapes_batch_from_firestore(st, shape_ids, ok) ==
    IF ok
    THEN [st |-> Without(st, { shape_ids[i] : i \in DOMAIN shape_ids }), val |-> TRUE]
    ELSE [st |-> st, val |-> FALSE]

\* shapes_to_simple_format, lines 348-376
SimpleFormat(shape) ==
    LET base == [id |-> Get(shape, "id", NoneVal), type |-> Get(shape, "type", NoneVal),
                 x |-> Get(shape, "x", NoneVal), y |-> Get(shape, "y", NoneVal),
                 width |-> Get(shape, "width", NoneVal),
                 height |-> Get(shape, "height", NoneVal),
                 fill |-> Get(shape, "fill", NoneVal),
                 rotation |-> Get(shape, "rotation", 0)]
        s1 == IF Has(shape, "type") /\ shape["type"] = "text"
              THEN Merge(base, [text |-> Get(shape, "text", NoneVal),
                                fontSize |-> Get(shape, "fontSize", NoneVal),
                                fontFamily |-> Get(shape, "fontFamily", NoneVal)])
              ELSE base
        s2 == IF Has(shape, "stroke") THEN SetKey(s1, "stroke", shape["stroke"]) ELSE s1
    IN  IF Has(shape, "strokeWidth") THEN SetKey(s2, "strokeWidth", shape["strokeWidth"]) ELSE s2

shapes_to_simple_format(shapes) == [ i \in DOMAIN shapes |-> SimpleFormat(shapes[i]) ]

\* ---------------------------------------------------- tools.py: the tools
\* What a tool call comes to: the store after it, the value returned, the store
\* calls it made (each with its argument and whether it succeeded) and the
\* number of ids it generated.
Out(st, ret, calls, ids) == [st |-> st, ret |-> ret, calls |-> calls, ids |-> ids]
StoreCall(op, arg, ok) == [op |-> op, arg |-> arg, ok |-> ok]
\* a message: its text without the values formatted into it, and the index or
\* count formatted into it
Msg(text, n) == [text |-> text, n |-> n]
Failure(text, n) == [success |-> FALSE, message |-> Msg(text, n)]

\* get_canvas_shapes, lines 70-76
get_canvas_shapes(st, ok) ==
    Out(st, shapes_to_simple_format(get_all_shapes(st, ok)),
        << StoreCall("get_all_shapes", << >>, ok) >>, 0)

\* create_shape, lines 108-150
create_shape(st, a, ok, n, ts) ==
    LET given == lower(a.shape_type)
        shape_type_lower == IF given = << "c", "i", "r", "c", "l", "e" >> THEN "circle" ELSE "rectangle"
        fill_color == normalize_color(a.color)
        shape == [id |-> generate_shape_id(n), type |-> shape_type_lower,
                  x |-> a.x, y |-> a.y, width |-> a.width,
                  height |-> IF shape_type_lower = "rectangle" THEN a.height ELSE a.width,
                  fill |-> fill_color, rotation |-> a.rotation,
                  stroke |-> "#000000", strokeWidth |-> 0]
        w == create_shape_in_firestore(st, shape, ok, ts)
    IN  Out(w.st,
            IF w.val
            THEN [success |-> TRUE, message |-> Msg("Created shape at position", 1),
                  shape_id |-> shape.id]
            ELSE Failure("Failed to create shape", 1),
            << StoreCall("create_shape", shape, w.val) >>, 1)

\* create_text, lines 178-217 (len(text) * font_size * 0.6 and font_size * 1.2,
\* for the sizes where they are whole)
create_text(st, a, ok, n, ts) ==
    LET fill_color == normalize_color(a.color)
        text_shape == [id |-> generate_shape_id(n), type |-> "text",
                       x |-> a.x, y |-> a.y, text |-> a.text,
                       fontSize |-> a.font_size, fontFamily |-> a.font_family,
                       fill |-> fill_color,
                       width |-> (Len(a.text) * a.font_size * 6) \div 10,
                       height |-> (a.font_size * 12) \div 10,
                       stroke |-> "#000000", strokeWidth |-> 0]
        w == create_shape_in_firestore(st, text_shape, ok, ts)
    IN  Out(w.st,
            IF w.val
            THEN [success |-> TRUE, message |-> Msg("Created text at position", 1),
                  shape_id |-> text_shape.id]
            ELSE Failure("Failed to create text", 1),
            << StoreCall("create_shape", text_shape, w.val) >>, 1)

\* the single-shape update tools, lines 243-273, 297-330, 350-378, 400-428: one
\* update_shape call, whose fields come back in the result
UpdateTool(st, shape_id, updates, ok, ts, done, failed) ==
    LET w == update_shape_in_firestore(st, shape_id, updates, ok, ts)
    IN  Out(w.st,
            IF w.val
            THEN Merge([success |-> TRUE, message |-> Msg(done, 1), shape_id |-> shape_id],
                       updates)
            ELSE [success |-> FALSE, message |-> Msg(failed, 1), shape_id |-> shape_id],
            << StoreCall("update_shape", [shape_id |-> shape_id, updates |-> updates], w.val) >>,
            0)

move_shape(st, a, ok, ts) ==
    UpdateTool(st, a.shape_id, [x |-> a.new_x, y |-> a.new_y], ok, ts,
               "Moved shape to position", "Failed to move shape. It may not exist on the canvas.")

\* new_height defaults to new_width (lines 297-298)
resize_shape(st, a, ok, ts) ==
    LET new_height == IF a.new_height = NoneVal THEN a.new_width ELSE a.new_height.val
    IN  UpdateTool(st, a.shape_id, [width |-> a.new_width, height |-> new_height], ok, ts,
                   "Resized shape", "Failed to resize shape. It may not exist on the canvas.")

\* the result names the angle "angle", the store field is "rotation"
rotate_shape(st, a, ok, ts) ==
    LET normalized_angle == a.angle % 360
        o == UpdateTool(st, a.shape_id, [rotation |-> normalized_angle], ok, ts,
                        "Rotated shape", "Failed to rotate shape. It may not exist on the canvas.")
    IN  IF o.ret.success
        THEN [o EXCEPT !.ret = SetKey(Without(o.ret, {"rotation"}), "angle", normalized_angle)]
        ELSE o

change_shape_color(st, a, ok, ts) ==
    UpdateTool(st, a.shape_id, [fill |-> normalize_color(a.new_color)], ok, ts,
               "Changed color of shape",
               "Failed to change color of shape. It may not exist on the canvas.")

\* sorted(shapes, key=lambda s: s.get(key, 0)): the sort is stable
SortedBy(shapes, key) ==
    LET n == Len(shapes)
        k(i) == Get(shapes[i], key, 0)
        pos(i) == Cardinality({ j \in 1..n : k(j) < k(i) })
                  + Cardinality({ j \in 1..(i - 1) : k(j) = k(i) }) + 1
    IN  [ p \in 1..n |-> shapes[CHOOSE i \in 1..n : pos(i) = p] ]

\* (mutant of Offsets: the spacing is left out)
RECURSIVE Offsets_NoSpacing(_, _, _, _)
Offsets_NoSpacing(shapes, extent, current, spacing) ==
    IF shapes = << >> THEN << >>
    ELSE << current >> \o
         Offsets_NoSpacing(Tail(shapes), extent, current + Get(Head(shapes), extent, 50), spacing)

\* lines 480-490: each shape starts where the previous one ends, plus the spacing
RECURSIVE Offsets(_, _, _, _)
Offsets(shapes, extent, current, spacing) ==
    IF shapes = << >> THEN << >>
    ELSE << current >> \o
         Offsets(Tail(shapes), extent, current + Get(Head(shapes), extent, 50) + spacing, spacing)

RECURSIVE Sum(_, _)
Sum(shapes, key) ==
    IF shapes = << >> THEN 0 ELSE Get(Head(shapes), key, 0) + Sum(Tail(shapes), key)

\* whether sum(...) / len(shapes) is a whole number
WholeMean(shapes, key) == Len(shapes) > 0 /\ Sum(shapes, key) % Len(shapes) = 0

\* arrange_shapes_horizontal (lines 461-521) and arrange_shapes_vertical (lines
\* 554-614): along is the axis of the row, across the other one, extent the
\* size along the row
Arrange(st, a, okr, okw, ts, along, across, extent) ==
    LET shapes == get_all_shapes(st, okr)
        read == StoreCall("get_all_shapes", << >>, okr)
    IN  IF Len(shapes) = 0
        THEN Out(st, Failure("No shapes on canvas to arrange", 0), << read >>, 0)
        ELSE LET position == IF a.position = NoneVal
                             THEN Sum(shapes, across) \div Len(shapes)
                             ELSE a.position.val
                 shapes_sorted == SortedBy(shapes, along)
                 offsets == Offsets(shapes_sorted, extent, 100, a.spacing)
                 updates == [ i \in 1..Len(shapes_sorted) |->
                                Merge([shape_id |-> shapes_sorted[i]["id"]],
                                      IF along = "x"
                                      THEN [x |-> offsets[i], y |-> position]
                                      ELSE [x |-> position, y |-> offsets[i]]) ]
                 w == update_shapes_batch_in_firestore(st, updates, okw, ts)
             IN  Out(w.st,
                     IF w.val
                     THEN [success |-> TRUE, message |-> Msg("Arranged shapes", Len(shapes)),
                           shape_count |-> Len(shapes),
                           shapes |-> [ i \in 1..Len(shapes_sorted) |->
                                          Merge(shapes_sorted[i],
                                                Without(updates[i], {"shape_id"})) ]]
                     ELSE Failure("Failed to arrange shapes", 0),
                     << read, StoreCall("update_shapes_batch", updates, w.val) >>, 0)

arrange_shapes_horizontal(st, a, okr, okw, ts) == Arrange(st, a, okr, okw, ts, "x", "y", "width")
arrange_shapes_vertical(st, a, okr, okw, ts) == Arrange(st, a, okr, okw, ts, "y", "x", "height")

\* delete_all_shapes, lines 643-679
delete_all_shapes(st, okr, okw) ==
    LET shapes == get_all_shapes(st, okr)
        read == StoreCall("get_all_shapes", << >>, okr)
    IN  IF Len(shapes) = 0
        THEN Out(st, [success |-> TRUE,
                      message |-> Msg("Canvas is already empty (no shapes to delete)", 0),
                      shape_count |-> 0], << read >>, 0)
        ELSE LET shape_ids == [ i \in DOMAIN shapes |-> shapes[i]["id"] ]
                 w == delete_shapes_batch_from_firestore(st, shape_ids, okw)
             IN  Out(w.st,
                     IF w.val
                     THEN [success |-> TRUE, message |-> Msg("Deleted all shapes from canvas", Len(shapes)),
                           shape_count |-> Len(shapes)]
                     ELSE Failure("Failed to delete all shapes", 0),
                     << read, StoreCall("delete_shapes_batch", shape_ids, w.val) >>, 0)

\* delete_shape_by_id, lines 697-720
delete_shape_by_id(st, a, ok) ==
    LET w == delete_shape_from_firestore(st, a.shape_id, ok)
    IN  Out(w.st,
            IF w.val
            THEN [success |-> TRUE, message |-> Msg("Deleted shape from the canvas", 1),
                  shape_id |-> a.shape_id]
            ELSE [success |-> FALSE,
                  message |-> Msg("Failed to delete shape. It may not exist on the canvas.", 1),
                  shape_id |-> a.shape_id],
            << StoreCall("delete_shape", a.shape_id, w.val) >>, 0)

\* move_random_shapes, lines 752-810: picked is what random.sample selects
move_random_shapes(st, a, okr, okw, picked, ts) ==
    IF a.count <= 0 THEN Out(st, Failure("Count must be greater than 0", 0), << >>, 0)
    ELSE LET all_shapes == get_all_shapes(st, okr)
             read == StoreCall("get_all_shapes", << >>, okr)
         IN  IF Len(all_shapes) = 0
             THEN Out(st, Failure("No shapes found on canvas", 0), << read >>, 0)
             ELSE LET shapes_to_move == picked
                      updates == [ i \in DOMAIN shapes_to_move |->
                                     [shape_id |-> shapes_to_move[i]["id"],
                                      x |-> Get(shapes_to_move[i], "x", 0) + a.offset_x,
                                      y |-> Get(shapes_to_move[i], "y", 0) + a.offset_y] ]
                      w == update_shapes_batch_in_firestore(st, updates, okw, ts)
                  IN  Out(w.st,
                          IF w.val
                          THEN [success |-> TRUE, message |-> Msg("Moved shapes by offset", Len(updates)),
                                shape_count |-> Len(updates)]
                          ELSE Failure("Failed to move shapes", 0),
                          << read, StoreCall("update_shapes_batch", updates, w.val) >>, 0)

\* random.sample(all_shapes, k): the selections of k shapes, in stream order
Samples(all_shapes, k) ==
    { s \in [1..k -> 1..Len(all_shapes)] : \A i \in 1..(k - 1) : s[i] < s[i + 1] }

\* create_random_shapes_simple, lines 847-929: r holds what random gave for the
\* one shape made (count is 0 or 1 here)
create_random_shapes_simple(st, a, r, ok, n, ts) ==
    LET given == lower(a.shape_type)
        shape_type == IF given \in {<< "r", "e", "c", "t", "a", "n", "g", "l", "e" >>, << "s", "q", "u", "a", "r", "e" >>, << "c", "i", "r", "c", "l", "e" >>, << "m", "i", "x", "e", "d" >>}
                      THEN given ELSE << "r", "e", "c", "t", "a", "n", "g", "l", "e" >>
        current_type == IF shape_type = << "m", "i", "x", "e", "d" >> THEN r.choice ELSE shape_type
        render_type == IF current_type = << "c", "i", "r", "c", "l", "e" >> THEN "circle" ELSE "rectangle"
        shapes == [ i \in 1..a.count |->
                      [id |-> SuffixedIds[n + i], type |-> render_type,
                       x |-> r.x, y |-> r.y, width |-> r.width,
                       height |-> IF current_type = << "r", "e", "c", "t", "a", "n", "g", "l", "e" >> THEN r.height ELSE r.width,
                       fill |-> r.color, rotation |-> 0,
                       stroke |-> "#000000", strokeWidth |-> 0] ]
        w == create_shapes_batch_in_firestore(st, shapes, ok, ts)
    IN  Out(w.st,
            IF w.val
            THEN [success |-> TRUE, message |-> Msg("Created random shapes", a.count),
                  shape_count |-> a.count]
            ELSE Failure("Failed to create shapes", a.count),
            << StoreCall("create_shapes_batch", shapes, w.val) >>, a.count)

\* create_grid, lines 961-1005: the cells row by row
create_grid(st, a, ok, n, ts) ==
    LET fill_color == normalize_color(a.color)
        shapes == [ p \in 1..(a.rows * a.cols) |->
                      LET row == (p - 1) \div a.cols
                          col == (p - 1) % a.cols
                      IN  [id |-> generate_shape_id(n + p - 1), type |-> "rectangle",
                           x |-> a.start_x + col * (a.cell_width + a.spacing),
                           y |-> a.start_y + row * (a.cell_height + a.spacing),
                           width |-> a.cell_width, height |-> a.cell_height,
                           fill |-> fill_color, rotation |-> 0,
                           stroke |-> "#000000", strokeWidth |-> 0] ]
        w == create_shapes_batch_in_firestore(st, shapes, ok, ts)
    IN  Out(w.st,
            IF w.val
            THEN [success |-> TRUE, message |-> Msg("Created grid", Len(shapes)),
                  shape_count |-> Len(shapes)]
            ELSE Failure("Failed to create grid", 0),
            << StoreCall("create_shapes_batch", shapes, w.val) >>, Len(shapes))

\* create_form, lines 1032-1135: the seven elements of the login form
FormText(id, x, y, text, fontSize, fill, width, height) ==
    [id |-> id, type |-> "text", x |-> x, y |-> y, text |-> text, fontSize |-> fontSize,
     fontFamily |-> "Arial", fill |-> fill, width |-> width, height |-> height,
     stroke |-> "#000000", strokeWidth |-> 0]
FormRect(id, x, y, height, fill) ==
    [id |-> id, type |-> "rectangle", x |-> x, y |-> y, width |-> 250, height |-> height,
     fill |-> fill, rotation |-> 0, stroke |-> "#000000", strokeWidth |-> 0]
LoginForm(x, y, n) ==
    << FormText(generate_shape_id(n), x, y, << "L", "o", "g", "i", "n" >>, 24, << "#", "0", "0", "0", "0", "0", "0" >>, 100, 30),
       FormText(generate_shape_id(n + 1), x, y + 50, << "U", "s", "e", "r", "n", "a", "m", "e", ":" >>, 14, << "#", "3", "3", "3", "3", "3", "3" >>, 100, 20),
       FormRect(generate_shape_id(n + 2), x, y + 75, 40, << "#", "F", "F", "F", "F", "F", "F" >>),
       FormText(generate_shape_id(n + 3), x, y + 130, << "P", "a", "s", "s", "w", "o", "r", "d", ":" >>, 14, << "#", "3", "3", "3", "3", "3", "3" >>, 100, 20),
       FormRect(generate_shape_id(n + 4), x, y + 155, 40, << "#", "F", "F", "F", "F", "F", "F" >>),
       FormRect(generate_shape_id(n + 5), x, y + 215, 45, << "#", "0", "0", "7", "B", "F", "F" >>),
       FormText(generate_shape_id(n + 6), x + 85, y + 227, << "L", "o", "g", "i", "n" >>, 16, << "#", "F", "F", "F", "F", "F", "F" >>, 80, 20) >>

\* create_form, lines 1027-1159: any other form type has no element
create_form(st, a, ok, n, ts) ==
    LET form_type_lower == lower(a.form_type)
        shapes == IF form_type_lower = << "l", "o", "g", "i", "n" >> THEN LoginForm(a.x, a.y, n) ELSE << >>
        w == create_shapes_batch_in_firestore(st, shapes, ok, ts)
    IN  Out(w.st,
            IF w.val
            THEN [success |-> TRUE, message |-> Msg("Created form with elements", Len(shapes)),
                  shape_count |-> Len(shapes)]
            ELSE Failure("Failed to create form", 0),
            << StoreCall("create_shapes_batch", shapes, w.val) >>, Len(shapes))

\* lines 1181-1190, the loop from the shape at position i on (position i is
\* index i - 1 of enumerate): a shape without an id is given one, the first
\* shape without a type ends the loop, a fill is normalized
RECURSIVE ValidateShapes(_, _, _, _)
ValidateShapes(shapes, i, n, ids) ==
    IF i > Len(shapes) THEN [missing |-> FALSE, index |-> 0, shapes |-> shapes, ids |-> ids]
    ELSE LET shape == shapes[i]
             s1 == IF Has(shape, "id") THEN shape
                   ELSE SetKey(shape, "id", generate_shape_id(n + ids))
             ids1 == IF Has(shape, "id") THEN ids ELSE ids + 1
         IN  IF ~Has(s1, "type")
             THEN [missing |-> TRUE, index |-> i - 1, shapes |-> shapes, ids |-> ids1]
             ELSE ValidateShapes(
                      [shapes EXCEPT ![i] = IF Has(s1, "fill")
                                            THEN SetKey(s1, "fill", normalize_color(s1["fill"]))
                                            ELSE s1],
                      i + 1, n, ids1)

\* (mutant of create_shapes_batch: the shapes before the one without a type are
\* written before the failure is returned)
create_shapes_batch_WritePrefix(st, shapes, ok, n, ts) ==
    LET v == ValidateShapes(shapes, 1, n, 0)
        upto == IF v.missing THEN v.index ELSE Len(shapes)
        checked == ValidateShapes(SubSeq(shapes, 1, upto), 1, n, 0)
        w == create_shapes_batch_in_firestore(st, checked.shapes, ok, ts)
    IN  Out(w.st,
            IF v.missing THEN Failure("Shape is missing required field 'type'", v.index)
            ELSE IF w.val
            THEN [success |-> TRUE, message |-> Msg("Created shapes in batch", Len(shapes)),
                  shape_count |-> Len(shapes)]
            ELSE Failure("Failed to create shapes batch", 0),
            << StoreCall("create_shapes_batch", checked.shapes, w.val) >>, v.ids)

\* create_shapes_batch, lines 1179-1213
create_shapes_batch(st, shapes, ok, n, ts) ==
    LET v == ValidateShapes(shapes, 1, n, 0)
    IN  IF v.missing
        THEN Out(st, Failure("Shape is missing required field 'type'", v.index), << >>, v.ids)
        ELSE LET w == create_shapes_batch_in_firestore(st, v.shapes, ok, ts)
             IN  Out(w.st,
                     IF w.val
                     THEN [success |-> TRUE, message |-> Msg("Created shapes in batch", Len(shapes)),
                           shape_count |-> Len(shapes)]
                     ELSE Failure("Failed to create shapes batch", 0),
                     << StoreCall("create_shapes_batch", v.shapes, w.val) >>, v.ids)

\* lines 1233-1240, the loop from the update at position i on: the first update
\* without a shape_id ends the loop, a fill is normalized
RECURSIVE ValidateUpdates(_, _)
ValidateUpdates(updates, i) ==
    IF i > Len(updates) THEN [missing |-> FALSE, index |-> 0, updates |-> updates]
    ELSE LET update == updates[i]
         IN  IF ~Has(update, "shape_id")
             THEN [missing |-> TRUE, index |-> i - 1, updates |-> updates]
             ELSE ValidateUpdates(
                      [updates EXCEPT ![i] = IF Has(update, "fill")
                                             THEN SetKey(update, "fill",
                                                         normalize_color(update["fill"]))
                                             ELSE update],
                      i + 1)

\* update_shapes_batch, lines 1231-1263
update_shapes_batch(st, updates, ok, ts) ==
    LET v == ValidateUpdates(updates, 1)
    IN  IF v.missing
        THEN Out(st, Failure("Update is missing required field 'shape_id'", v.index), << >>, 0)
        ELSE LET w == update_shapes_batch_in_firestore(st, v.updates, ok, ts)
             IN  Out(w.st,
                     IF w.val
                     THEN [success |-> TRUE, message |-> Msg("Updated shapes in batch", Len(updates)),
                           shape_count |-> Len(updates)]
                     ELSE Failure("Failed to update shapes batch", 0),
                     << StoreCall("update_shapes_batch", v.updates, w.val) >>, 0)

\* delete_shapes_batch, lines 1281-1308
delete_shapes_batch(st, shape_ids, ok) ==
    IF Len(shape_ids) = 0 THEN Out(st, Failure("No shape IDs provided", 0), << >>, 0)
    ELSE LET w == delete_shapes_batch_from_firestore(st, shape_ids, ok)
         IN  Out(w.st,
                 IF w.val
                 THEN [success |-> TRUE, message |-> Msg("Deleted shapes in batch", Len(shape_ids)),
                       shape_count |-> Len(shape_ids)]
                 ELSE Failure("Failed to delete shapes batch", 0),
                 << StoreCall("delete_shapes_batch", shape_ids, w.val) >>, 0)

\* ----------------------------------------- tools.py: the tools being called
\* an optional argument: None or a number
Num(v) == [tag |-> "num", val |-> v]

\* a document as the frontend's createShape writes it
FrontendShape(id, type, x, y, width, height) ==
    [id |-> id, type |-> type, x |-> x, y |-> y, width |-> width, height |-> height,
     fill |-> << "#", "a", "b", "c", "1", "2", "3" >>, rotation |-> 0, stroke |-> "#000000", strokeWidth |-> 0,
     createdAt |-> 0, updatedAt |-> 0, sessionId |-> "tab-1", userId |-> "user-1"]

\* the canvases users have drawn: three rectangles of widths 80, 50, 60 of which
\* the second is the leftmost; a text and a circle with the same x
ThreeRects ==
    [ id \in {"f1", "f2", "f3"} |->
        CASE id = "f1" -> FrontendShape("f1", "rectangle", 200, 0, 80, 40)
          [] id = "f2" -> FrontendShape("f2", "rectangle", 40, 60, 50, 40)
          [] OTHER -> FrontendShape("f3", "rectangle", 320, 120, 60, 40) ]
TextAndCircle ==
    [ id \in {"f1", "f2"} |->
        IF id = "f1"
        THEN Merge(Without(FrontendShape("f1", "text", 40, 0, 60, 24), {"rotation"}),
                   [text |-> << "H", "i" >>, fontSize |-> 20, fontFamily |-> "Arial"])
        ELSE FrontendShape("f2", "circle", 40, 60, 30, 30) ]
Canvases == {ThreeRects, TextAndCircle}


\* the arguments the engine calls the tools with
CreateShapeArgs ==
    { [shape_type |-> << "c", "i", "r", "c", "l", "e" >>, x |-> 300, y |-> 200, width |-> 100, height |-> 100,
       color |-> << "r", "e", "d" >>, rotation |-> 0],
      [shape_type |-> << "R", "e", "c", "t", "a", "n", "g", "l", "e" >>, x |-> 40, y |-> 60, width |-> 50, height |-> 30,
       color |-> << " ", "B", "l", "u", "e" >>, rotation |-> 0],
      [shape_type |-> << "t", "r", "i", "a", "n", "g", "l", "e" >>, x |-> 120, y |-> 0, width |-> 80, height |-> 30,
       color |-> << "#", "a", "b", "c", "1", "2", "3" >>, rotation |-> 450] }
CreateTextArgs ==
    { [text |-> << "H", "e", "l", "l", "o" >>, x |-> 10, y |-> 60, font_size |-> 20, color |-> << "b", "l", "a", "c", "k" >>,
       font_family |-> "Arial"] }
ShapeIds == (DOMAIN store) \cup {"nope"}
Spacings == {0, 10}
Positions == {NoneVal, Num(60)}
BatchShapes ==
    LET rect == [type |-> "rectangle", x |-> 0, y |-> 0, width |-> 50, height |-> 50,
                 fill |-> << "R", "e", "d" >>]
        untyped == [x |-> 10, y |-> 0, fill |-> << "b", "l", "u", "e" >>]
        circle == [id |-> "f1", type |-> "circle", x |-> 10, y |-> 60, width |-> 30,
                   height |-> 30, fill |-> << "#", "a", "b", "c", "1", "2", "3" >>]
        text == [type |-> "text", x |-> 0, y |-> 0, width |-> 40, height |-> 20,
                 fill |-> << "b", "l", "a", "c", "k" >>]
    IN  { << rect, untyped, rect >>, << rect, untyped, untyped >>, << untyped >>,
          << rect >>, << circle, rect >>, << text >> }
BatchUpdates ==
    LET move == [shape_id |-> "f1", x |-> 7, y |-> 9]
        anonymous == [x |-> 1, y |-> 2]
        paint == [shape_id |-> "f2", fill |-> << "G", "r", "e", "e", "n" >>]
        absent == [shape_id |-> "nope", x |-> 1]
        turn == [shape_id |-> "f2", rotation |-> -90]
    IN  { << move, anonymous, paint >>, << anonymous, anonymous >>, << move, paint >>,
          << absent >>, << turn >> }

\* a tool call returns: the server's time moves with each call
ToolReturns(tool, args, out) ==
    /\ tool_calls < MaxToolCalls
    /\ next_id + out.ids <= MaxIds
    /\ store' = out.st
    /\ next_id' = next_id + out.ids
    /\ tool_calls' = tool_calls + 1
    /\ tool_ret' = [tool |-> tool, args |-> args, ret |-> out.ret, calls |-> out.calls]
    /\ cmd_ret' = NoResult
    /\ UNCHANGED << colorVars, healthVars, lockVars, normVars, sessVars, agentVars, envVars,
                    threadVars >>

Now == tool_calls + 1

\* a user draws on the empty canvas
ClientDraws ==
    /\ store = << >> /\ tool_calls = 0
    /\ store' \in Canvases
    /\ UNCHANGED << next_id, tool_calls, tool_ret, cmd_ret, colorVars, healthVars, lockVars,
                    normVars, sessVars, agentVars, envVars, threadVars >>

GetCanvasShapes ==
    \E ok \in BOOLEAN :
        ToolReturns("get_canvas_shapes", << >>, get_canvas_shapes(store, ok))
CreateShape ==
    \E a \in CreateShapeArgs, ok \in BOOLEAN :
        ToolReturns("create_shape", a, create_shape(store, a, ok, next_id, Now))
CreateText ==
    \E a \in CreateTextArgs, ok \in BOOLEAN :
        ToolReturns("create_text", a, create_text(store, a, ok, next_id, Now))
MoveShape ==
    \E id \in ShapeIds, ok \in BOOLEAN :
        LET a == [shape_id |-> id, new_x |-> 7, new_y |-> 9]
        IN  ToolReturns("move_shape", a, move_shape(store, a, ok, Now))
ResizeShape ==
    \E id \in ShapeIds, h \in {NoneVal, Num(20)}, ok \in BOOLEAN :
        LET a == [shape_id |-> id, new_width |-> 70, new_height |-> h]
        IN  ToolReturns("resize_shape", a, resize_shape(store, a, ok, Now))
RotateShape ==
    \E id \in ShapeIds, ok \in BOOLEAN :
        LET a == [shape_id |-> id, angle |-> 450]
        IN  ToolReturns("rotate_shape", a, rotate_shape(store, a, ok, Now))
ChangeShapeColor ==
    \E id \in ShapeIds, c \in {<< " ", "G", "r", "e", "e", "n" >>, << "#", "A", "B", "C" >>}, ok \in BOOLEAN :
        LET a == [shape_id |-> id, new_color |-> c]
        IN  ToolReturns("change_shape_color", a, change_shape_color(store, a, ok, Now))
\* (a row or column without a position is arranged where the mean is whole)
ArrangeShapesHorizontal ==
    \E s \in Spacings, p \in Positions, okr \in BOOLEAN, okw \in BOOLEAN :
        LET a == [spacing |-> s, position |-> p]
        IN  /\ p = NoneVal /\ okr => WholeMean(get_all_shapes(store, TRUE), "y")
            /\ ToolReturns("arrange_shapes_horizontal", a,
                           arrange_shapes_horizontal(store, a, okr, okw, Now))
ArrangeShapesVertical ==
    \E s \in Spacings, p \in Positions, okr \in BOOLEAN, okw \in BOOLEAN :
        LET a == [spacing |-> s, position |-> p]
        IN  /\ p = NoneVal /\ okr => WholeMean(get_all_shapes(store, TRUE), "x")
            /\ ToolReturns("arrange_shapes_vertical", a,
                           arrange_shapes_vertical(store, a, okr, okw, Now))
DeleteAllShapes ==
    \E okr \in BOOLEAN, okw \in BOOLEAN :
        ToolReturns("delete_all_shapes", << >>, delete_all_shapes(store, okr, okw))
DeleteShapeById ==
    \E id \in ShapeIds, ok \in BOOLEAN :
        LET a == [shape_id |-> id]
        IN  ToolReturns("delete_shape_by_id", a, delete_shape_by_id(store, a, ok))
MoveRandomShapes ==
    \E count \in {0, 2}, okr \in BOOLEAN, okw \in BOOLEAN :
        LET a == [count |-> count, offset_x |-> 5, offset_y |-> 0]
            all_shapes == get_all_shapes(store, okr)
            k == IF count < Len(all_shapes) THEN count ELSE Len(all_shapes)
        IN  \E s \in Samples(all_shapes, k) :
                ToolReturns("move_random_shapes", a,
                            move_random_shapes(store, a, okr, okw,
                                               [ i \in 1..k |-> all_shapes[s[i]] ], Now))
CreateRandomShapesSimple ==
    \E count \in {0, 1}, t \in {<< "S", "q", "u", "a", "r", "e" >>, << "m", "i", "x", "e", "d" >>}, ok \in BOOLEAN :
        LET a == [count |-> count, shape_type |-> t]
            r == [choice |-> << "c", "i", "r", "c", "l", "e" >>, x |-> 50, y |-> 60, width |-> 30, height |-> 40,
                  color |-> << "#", "F", "F", "0", "0", "0", "0" >>]
        IN  ToolReturns("create_random_shapes_simple", a,
                        create_random_shapes_simple(store, a, r, ok, next_id, Now))
CreateGrid ==
    \E ok \in BOOLEAN :
        LET a == [rows |-> 1, cols |-> 2, cell_width |-> 80, cell_height |-> 80,
                  start_x |-> 100, start_y |-> 100, spacing |-> 20, color |-> << "B", "l", "u", "e" >>]
        IN  ToolReturns("create_grid", a, create_grid(store, a, ok, next_id, Now))
CreateForm ==
    \E t \in {<< "L", "o", "g", "i", "n" >>, << "c", "o", "n", "t", "a", "c", "t" >>}, ok \in BOOLEAN :
        LET a == [form_type |-> t, x |-> 200, y |-> 150]
        IN  ToolReturns("create_form", a, create_form(store, a, ok, next_id, Now))
CreateShapesBatch ==
    \E shapes \in BatchShapes, ok \in BOOLEAN :
        ToolReturns("create_shapes_batch", shapes,
                    create_shapes_batch(store, shapes, ok, next_id, Now))
UpdateShapesBatch ==
    \E updates \in BatchUpdates, ok \in BOOLEAN :
        ToolReturns("update_shapes_batch", updates,
                    update_shapes_batch(store, updates, ok, Now))
DeleteShapesBatch ==
    \E shape_ids \in { << >>, << "nope" >>,
                       [ i \in DOMAIN get_all_shapes(store, TRUE) |->
                           get_all_shapes(store, TRUE)[i]["id"] ] },
       ok \in BOOLEAN :
        ToolReturns("delete_shapes_batch", shape_ids,
                    delete_shapes_batch(store, shape_ids, ok))

\* a tool's return value as the engine records it in intermediate_steps
StepValue(tool, ret) ==
    IF tool = "get_canvas_shapes" THEN List([ i \in DOMAIN ret |-> Dict(ret[i]) ])
    ELSE IF Has(ret, "shapes")
    THEN Dict([ret EXCEPT !.shapes = List([ i \in DOMAIN @ |-> Dict(@[i]) ])])
    ELSE Dict(ret)

\* execute_canvas_command, lines 330-355, for the first command, which the engine
\* answered with the one tool call made and a final text
ExecuteReturns ==
    /\ tool_calls = 1
    /\ cmd_ret = NoResult
    /\ cmd_ret' = SuccessResult([output |-> Str("Done"),
                                 intermediate_steps |->
                                     << << "action", StepValue(tool_ret.tool, tool_ret.ret) >> >>],
                                NoCall)
    /\ UNCHANGED << store, next_id, tool_calls, tool_ret, colorVars, healthVars, lockVars,
                    normVars, sessVars, agentVars, envVars, threadVars >>

NextTools ==
    \/ ClientDraws
    \/ GetCanvasShapes
    \/ CreateShape
    \/ CreateText
    \/ CreateRandomShapesSimple
    \/ CreateGrid
    \/ CreateForm
    \/ MoveShape
    \/ MoveRandomShapes
    \/ ResizeShape
    \/ RotateShape
    \/ ChangeShapeColor
    \/ ArrangeShapesHorizontal
    \/ ArrangeShapesVertical
    \/ DeleteShapeById
    \/ DeleteAllShapes
    \/ CreateShapesBatch
    \/ UpdateShapesBatch
    \/ DeleteShapesBatch
    \/ ExecuteReturns

SpecTools == InitConfigured /\ [][NextTools]_vars

NextColor == ColorPick \/ ColorApply

SpecColor == InitConfigured /\ [][NextColor]_vars

\* ------------------------------------------------------------ properties
\* ------------------------- canvas_agent.py: a command whose engine calls tools
\* the intermediate steps the running invocation has recorded so far
\* (return_intermediate_steps=True, line 105)
WorkerSteps(t) == IF Has(worker[t], "steps") THEN worker[t].steps ELSE << >>
\* whether the invocation called a tool after future.result had given up
WorkerLate(t) == Has(worker[t], "late") /\ worker[t].late

\* the worker thread, inside agent.invoke (line 319): the engine calls one of
\* ALL_TOOLS (line 96); the tool works on the store and its return value is
\* recorded as a step
EngineCalls(t, tool, args, out) ==
    /\ worker[t].st = "running"
    /\ tool_calls < MaxToolCalls
    /\ next_id + out.ids <= MaxIds
    /\ store' = out.st
    /\ next_id' = next_id + out.ids
    /\ tool_calls' = tool_calls + 1
    /\ tool_ret' = [tool |-> tool, args |-> args, ret |-> out.ret, calls |-> out.calls]
    /\ worker' = [worker EXCEPT ![t] =
                     [st |-> "running",
                      steps |-> Append(WorkerSteps(t), << "action", StepValue(tool, out.ret) >>),
                      late |-> WorkerLate(t) \/ obs[t].timed_out]]
    /\ UNCHANGED << cmd_ret, colorVars, healthVars, lockVars, normVars, sessVars, agentVars,
                    envVars, pc, call, loc, result, obs >>

WorkerTool(t) ==
    \/ \E a \in CreateShapeArgs, ok \in BOOLEAN :
          EngineCalls(t, "create_shape", a, create_shape(store, a, ok, next_id, Now))
    \/ \E id \in ShapeIds, ok \in BOOLEAN :
          LET a == [shape_id |-> id, new_x |-> 7, new_y |-> 9]
          IN  EngineCalls(t, "move_shape", a, move_shape(store, a, ok, Now))
    \/ \E okr \in BOOLEAN, okw \in BOOLEAN :
          EngineCalls(t, "delete_all_shapes", << >>, delete_all_shapes(store, okr, okw))

\* the worker thread: agent.invoke returns the final text and the steps recorded
WorkerFinish(t) ==
    /\ worker[t].st = "running"
    /\ worker' = [worker EXCEPT ![t] =
                     [st |-> "returned",
                      out |-> Dict([output |-> Str("Done"), intermediate_steps |-> WorkerSteps(t)]),
                      steps |-> WorkerSteps(t),
                      late |-> WorkerLate(t)]]
    /\ hist' = [hist EXCEPT ![loc[t].memory] = InvokeSaves(t, loc[t].memory)]
    /\ UNCHANGED << auxVars, sessions, next_handle, now, last_get, api_ret,
                    agentVars, envVars, pc, call, loc, result, obs >>

\* the steps of a call whose invocation works on the canvas
StepsCommand(t) ==
    \/ CfcStat(t) \/ CfcCompare(t) \/ CfcUpdate(t)
    \/ InitCountRead(t) \/ InitCountWrite(t) \/ InitCreate(t)
    \/ CheckNone(t) \/ ReadAgent(t) \/ ExecGetMemory(t) \/ Submit(t)
    \/ WorkerTool(t) \/ WorkerFinish(t) \/ WorkerRaise(t)
    \/ Deadline(t) \/ TimeoutReturn(t) \/ FutureResult(t) \/ FutureRaise(t)

NextCommand ==
    \/ Startup
    \/ Modify
    \/ StartExecute(Main)
    \/ StepsCommand(Main)

SpecCommand == InitConfigured /\ [][NextCommand]_vars

Returned(t) == pc[t] = "done"

C2_TimeoutResult ==
    \A t \in Threads :
        obs[t].timed_out =>
            /\ pc[t] \in {"shutdown_wait", "done"}
            /\ Returned(t) =>
                 /\ result[t].success = FALSE
                 /\ result[t].error = "Timeout after 20 seconds"
                 /\ result[t].shapes = << >>

\* a call that timed out has returned
C2_Witness ==
    \E t \in Threads : Returned(t) /\ obs[t].timed_out /\ result[t].success = FALSE

\* C3 (as claimed): once the 20 seconds have run out, the call is not held back
\* by the engine invocation: it is never found waiting for the running worker.
C3_ReturnsWithoutWaiting ==
    \A t \in Threads : ~(obs[t].timed_out /\ ~Returned(t) /\ worker[t].st = "running")

\* C4: every result carries a boolean success, a message and a shapes list; a
\* result with success=false has no shapes and carries an error string.
C4_ResultWellFormed ==
    \A t \in Threads :
        Returned(t) =>
            /\ {"success", "message", "shapes"} \subseteq DOMAIN result[t]
            /\ result[t].success \in BOOLEAN
            /\ result[t].message.tag = "str"
            /\ DOMAIN result[t].shapes = 1..Len(result[t].shapes)
            /\ result[t].success = FALSE =>
                 /\ result[t].shapes = << >>
                 /\ "error" \in DOMAIN result[t]
                 /\ result[t].error \in Causes \cup {"Timeout after 20 seconds"}

\* a call the engine failed has returned a failure result
C4_Witness ==
    \E t \in Threads :
        Returned(t) /\ result[t].success = FALSE /\ obs[t].cause = "EngineError"

\* C8 (as claimed): after a successful call for session s, the turn of that call
\* is in the memory object of s.
C8_TurnRecorded ==
    \A t \in Threads :
        Returned(t) /\ result[t].success =>
            \E i \in 1..Len(hist[loc[t].memory]) : hist[loc[t].memory][i][1] = call[t].cmd

\* a step in which get_memory(sid) was called and gave its caller something new
\* to see (a call that repeats the previous one at the same time changes nothing)
GetStep(sid) == last_get'[sid] # last_get[sid] /\ last_get'[sid].h # NoRef

\* a step in which clear_session(sid) was called
ClearStep(sid) ==
    api_ret' # api_ret /\ api_ret'.op = "clear_session" /\ api_ret'.sid = sid

Live(sid, t) == sid \in DOMAIN sessions /\ t - sessions[sid].last_access <= SESSION_TIMEOUT

\* C5: get_memory is idempotent per session. A call for s that follows an earlier
\* call for s, with no clear_session(s) in between and at most SESSION_TIMEOUT
\* after it, returns the same memory object with its history as it was; every
\* call leaves last_access = now.
C5_IdempotentGet ==
    [][ \A sid \in SessionIds :
          GetStep(sid) =>
            /\ sid \in DOMAIN sessions'
            /\ sessions'[sid].last_access = now
            /\ sessions'[sid].memory = last_get'[sid].h
            /\ (last_get[sid].h # NoRef /\ now - last_get[sid].t <= SESSION_TIMEOUT) =>
                 /\ last_get'[sid].h = last_get[sid].h
                 /\ hist'[last_get'[sid].h] = hist[last_get[sid].h] ]_vars

\* a session first obtained more than the timeout ago, obtained again since with
\* the same memory object, which holds a turn
C5_Witness ==
    \E sid \in DOMAIN sessions :
        /\ last_get[sid].h = sessions[sid].memory
        /\ last_get[sid].t - last_get[sid].first > SESSION_TIMEOUT
        /\ hist[sessions[sid].memory] # << >>

\* C6: expiry is global. After a get_memory call for any session id, every session
\* whose last access was older than the timeout is gone: its memory object is no
\* longer in the map, its id is absent unless it is the id just asked for (which
\* then holds a new object), and get_active_sessions_count counts the surviving
\* sessions and the one asked for.
C6_GlobalExpiry ==
    [][ \A sid \in SessionIds :
          GetStep(sid) =>
            /\ \A u \in DOMAIN sessions :
                 ~Live(u, now) =>
                    /\ u # sid => u \notin DOMAIN sessions'
                    /\ \A v \in DOMAIN sessions' : sessions'[v].memory # sessions[u].memory
            /\ Cardinality(DOMAIN sessions') =
                 Cardinality({ u \in DOMAIN sessions : Live(u, now) } \cup {sid}) ]_vars

\* s1 was obtained and never cleared, and the last call, made for s2, left s2 alone
\* in the map
C6_Witness ==
    /\ api_ret.op = "get_memory" /\ api_ret.sid = "s2"
    /\ last_get["s1"].h # NoRef
    /\ DOMAIN sessions = {"s2"}
    /\ get_active_sessions_count = 1

\* C7: no leakage across sessions. Two sessions in the map never share a memory
\* object; a get_memory or clear_session for one session id leaves every other
\* live session with its memory object and its history; and no step changes the
\* history of two sessions.
C7_Distinct ==
    \A u, v \in DOMAIN sessions : u # v => sessions[u].memory # sessions[v].memory

C7_NoLeak ==
    /\ []C7_Distinct
    /\ [][ /\ \A sid \in SessionIds, u \in DOMAIN sessions :
                ((GetStep(sid) \/ ClearStep(sid)) /\ u # sid /\ Live(u, now)) =>
                    /\ u \in DOMAIN sessions'
                    /\ sessions'[u] = sessions[u]
                    /\ hist'[sessions[u].memory] = hist[sessions[u].memory]
           /\ \A u, v \in DOMAIN sessions :
                u # v => \/ hist'[sessions[u].memory] = hist[sessions[u].memory]
                         \/ hist'[sessions[v].memory] = hist[sessions[v].memory] ]_vars

\* two sessions in the map, a turn saved for s1 and none for s2
C7_Witness ==
    /\ DOMAIN sessions = {"s1", "s2"}
    /\ hist[sessions["s1"].memory] # << >>
    /\ hist[sessions["s2"].memory] = << >>

\* a call that has read the agent reference (line 305) and not yet returned
HoldsAgent(t) == pc[t] \in {"get_memory", "compose", "waiting", "shutdown_wait"}

\* C9: one agent is current at a time. A recreation replaces the reference in one
\* step by a newly created agent; a call that reads the reference takes the one
\* current at that moment; a call that has already read it keeps its agent and
\* its invocation when the reference is replaced, and finishes on that agent.
C9_SwapKeepsInFlight ==
    /\ [](\A t \in Threads :
            /\ global_agent \in 0..next_agent
            /\ (next_agent > 0 => global_agent # NoRef)
            /\ (HoldsAgent(t) => loc[t].agent \in 1..next_agent))
    /\ [][ \A t \in Threads :
             /\ global_agent' # global_agent =>
                  /\ global_agent' = next_agent' /\ next_agent' = next_agent + 1
                  /\ HoldsAgent(t) =>
                       /\ pc'[t] = pc[t]
                       /\ worker'[t] = worker[t]
                       /\ loc'[t].agent = loc[t].agent
             /\ (pc[t] = "read_agent" /\ pc'[t] # "read_agent") =>
                  loc'[t].agent = global_agent
             /\ (HoldsAgent(t) /\ pc'[t] # "idle") => loc'[t].agent = loc[t].agent ]_vars

\* a call has returned its engine's result, obtained on an agent that was replaced
\* while the call was running
C9_Witness ==
    \E t \in Threads :
        /\ Returned(t) /\ result[t].success
        /\ loc[t].agent # NoRef
        /\ loc[t].agent # global_agent

\* the call is past the check of line 295
PastCheck(t) == pc[t] \notin {"idle", "cfc_stat", "cfc_cmp", "cfc_upd"} \/ loc[t].in_init

\* C10: hot reload recreates exactly once. A call that finds tools.py or prompts.py
\* changed against the stored times calls initialize_agent exactly once before it
\* invokes the engine, and invokes the engine on the agent that call created; the
\* creation count is the number of initialize_agent calls; once a check has run
\* after the last modification the stored times are the files' times, so the next
\* call finds no change, and with an agent present it does not call
\* initialize_agent.
C10_HotReloadOnce ==
    /\ (\A u \in Threads : pc[u] # "init_write") => agent_creation_count = init_calls
    /\ next_agent > 0 => global_agent # NoRef
    /\ (tools_file_mtime # NoMtime /\ ~dirty /\ \A u \in Threads : pc[u] \notin {"cfc_cmp", "cfc_upd"}) =>
          << tools_file_mtime, prompts_file_mtime >> = << files.tools, files.prompts >>
    /\ \A t \in Threads :
        /\ PastCheck(t) => obs[t].changed = obs[t].mismatch
        /\ (obs[t].invoked > 0 /\ obs[t].mismatch) =>
              /\ obs[t].inits = 1
              /\ obs[t].made # NoRef
              /\ loc[t].agent = obs[t].made
        /\ (obs[t].invoked > 0 /\ ~obs[t].mismatch) =>
              \/ obs[t].inits = 0
              \/ obs[t].inits = 1 /\ loc[t].reason = "missing" /\ loc[t].agent = obs[t].made
        /\ obs[t].invoked <= 1

\* after startup, one modification and the call that recreated the agent for it,
\* a second call has invoked the engine without creating anything
C10_Witness ==
    \E t \in Threads :
        /\ executes = 2 /\ mods = 1
        /\ obs[t].invoked = 1 /\ obs[t].inits = 0 /\ ~obs[t].mismatch
        /\ agent_creation_count = 2
        /\ global_agent = 2 /\ loc[t].agent = 2

\* C11 (as claimed): initialize_agent either publishes a newly and fully
\* constructed agent or raises; without a valid credential (none, or the one the
\* server itself reports as not configured) it raises the configuration error and
\* constructs nothing; until a construction has succeeded the agent is absent.
C11_InitializeOrRaises ==
    /\ global_agent # NoRef => global_agent \in 1..next_agent /\ HasAttrs(global_agent)
    /\ next_agent = 0 => global_agent = NoRef
    /\ ~Configured(api_key) =>
          /\ next_agent = 0
          /\ \A t \in Threads : obs[t].cause \in {"none", "ValueError"}

\* C12 (as claimed): no exception leaves check_agent_health.
C12_HealthNeverThrows == health_ret.val # "raised"

\* a step that is a call of check_agent_health
HealthStep == probes' # probes

\* C13 (as claimed): a check_agent_health call that finds the files unchanged and
\* the agent present with both attributes returns true and leaves the agent and
\* the creation count alone; one that finds the agent absent or without an
\* attribute calls initialize_agent and returns false.
C13_ProbeHealsOrLeaves ==
    [][ HealthStep =>
          /\ ( /\ global_agent # NoRef /\ HasAttrs(global_agent)
               /\ ~FilesChanged(tools_file_mtime, prompts_file_mtime, files) ) =>
                  /\ health_ret'.val = "true"
                  /\ global_agent' = global_agent
                  /\ agent_creation_count' = agent_creation_count
                  /\ next_agent' = next_agent
          /\ (global_agent = NoRef \/ ~HasAttrs(global_agent)) =>
                  /\ init_calls' > init_calls
                  /\ health_ret'.val = "false" ]_vars

\* C14 (as claimed): after a failed initialize_agent the manager still retries: a
\* call that goes on to use the agent has one (it initialized when it found
\* none), and the health monitor task, once started, is still running its cycles.
C14_RetryNeverStops ==
    /\ \A t \in Threads : pc[t] = "read_agent" => global_agent # NoRef
    /\ started => monitor = "sleeping"

\* a step that is a call of get_agent_stats with something new to report
StatsStep == stats_ret' # stats_ret /\ stats_ret' # NoStats

\* C18: get_agent_stats is a pure read. It reports whether an agent is present,
\* the creation count and the time of the last health check (none before the
\* first) as they are, and changes none of them, nor the stored file times, nor
\* the sessions.
C18_StatsPureRead ==
    [][ StatsStep =>
          /\ stats_ret'.is_initialized = (global_agent # NoRef)
          /\ stats_ret'.creation_count = init_calls
          /\ stats_ret'.last_health_check =
                IF probes = 0 THEN NoneVal ELSE Str(HEALTH_INTERVAL * probes)
          /\ UNCHANGED << global_agent, agent_creation_count, last_health_check,
                          tools_file_mtime, prompts_file_mtime, sessions, hist >> ]_vars

\* statistics were reported after a failed creation, a successful one and a
\* health check
C18_Witness ==
    /\ stats_ret # NoStats
    /\ stats_ret.is_initialized
    /\ stats_ret.creation_count = 2
    /\ global_agent = 1
    /\ stats_ret.last_health_check = Str(HEALTH_INTERVAL)

\* C15 (as claimed): with execute_canvas_command running in several threads at
\* once, no increment of the creation count is lost (whenever no increment is
\* under way the count is the number of initialize_agent calls made), and the
\* calls that answer one modification of the files by a recreation are at most one.
C15_RaceFree ==
    /\ (\A t \in Threads : pc[t] # "init_write") => agent_creation_count = init_calls
    /\ Cardinality({ t \in Threads : obs[t].changed }) <= mods

\* a thread is inside a `with _lock:` block
InLock(t) == sm[t].at \in {"body", "release"}

\* C16: the SessionManager methods exclude one another: at most one thread is
\* inside a `with _lock:` block and it is the holder of the lock; a thread outside
\* the blocks does not hold the lock, whichever return it left by; and the lock is
\* not held by a call whose engine invocation is running, so another thread can
\* be inside a block meanwhile.
C16_LockDiscipline ==
    /\ \A t, u \in Threads : (InLock(t) /\ InLock(u)) => t = u
    /\ \A t \in Threads : InLock(t) <=> lock = t
    /\ \A t \in Threads : worker[t].st = "running" => (lock # t /\ ~InLock(t))

\* the client thread is inside get_memory, holding the lock, while the engine
\* invocation of the other thread's call is running, after a clear_session that
\* found nothing
C16_Witness ==
    /\ worker[Main].st = "running"
    /\ lock = Client /\ sm[Client].at = "release" /\ sm[Client].op = "get_memory"
    /\ sm[Main].at = "none"
    /\ DOMAIN sessions = {"s1", "s2"}

\* C17: clear_session(s) returns true and removes s when s is in the map, returns
\* false and changes nothing when it is not; either way every other entry keeps
\* its memory object and its last access, and no history changes. The next
\* get_memory(s) creates an entry whose memory object was never handed out before
\* and is empty.
C17_ClearFrame ==
    [][ \A sid \in SessionIds :
          /\ ClearStep(sid) =>
               /\ api_ret'.val = (IF sid \in DOMAIN sessions THEN 1 ELSE 0)
               /\ DOMAIN sessions' = (DOMAIN sessions) \ {sid}
               /\ \A u \in (DOMAIN sessions) \ {sid} : sessions'[u] = sessions[u]
               /\ sid \notin DOMAIN sessions => sessions' = sessions
               /\ hist' = hist
          /\ (GetStep(sid) /\ sid \notin DOMAIN sessions) =>
               /\ sessions'[sid].memory \notin 1..next_handle
               /\ hist'[sessions'[sid].memory] = << >>
               /\ Window(sessions'[sid].memory) = << >> ]_vars

\* clear_session("s1") has just returned true, leaving s2 with its turn, after s1
\* had been given a second memory object
C17_Witness ==
    /\ api_ret = [op |-> "clear_session", sid |-> "s1", val |-> 1]
    /\ DOMAIN sessions = {"s2"}
    /\ hist[sessions["s2"].memory] # << >>
    /\ next_handle = 3

\* what the tool output of each kind is to contribute, written out
ToolYield(k) ==
    CASE k = 1 -> << RectA, RectB, TextA >>
      [] k = 2 -> << [type |-> "circle", x |-> 300, y |-> 200, fill |-> "#FF0000"] >>
      [] k = 3 -> << CircleC, TextB >>
      [] k = 4 -> << MoveCmd >>
      [] k = 7 -> << CircleC >>
      [] OTHER -> << >>

RECURSIVE StepsYield(_)
StepsYield(ts) ==
    IF ts = << >> THEN << >> ELSE ToolYield(Head(ts)) \o StepsYield(Tail(ts))

\* the records of a sequence that carry a given id
RECURSIVE WithId(_, _)
WithId(recs, id) ==
    IF recs = << >> THEN 0
    ELSE (IF "id" \in DOMAIN Head(recs) /\ Head(recs)["id"] = id THEN 1 ELSE 0)
         + WithId(Tail(recs), id)

\* C19: the records the intermediate steps contribute come out in the order of
\* the steps, each step's records in their own order, none dropped for sharing an
\* id with another: after every final answer's own records, the output is what
\* the steps contribute one after the other; steps of kinds 1, 2, 3 (a "shapes"
\* list of three, a circle, a list of two) give exactly those six records.
C19_StepsInOrder ==
    norm_out.done =>
        /\ Len(norm_out.shapes) >= Len(StepsYield(norm_in.tools))
        /\ LET n == Len(norm_out.shapes) - Len(StepsYield(norm_in.tools))
           IN  SubSeq(norm_out.shapes, n + 1, Len(norm_out.shapes)) = StepsYield(norm_in.tools)
        /\ norm_in = [final |-> 1, tools |-> << 1, 2, 3 >>] =>
             /\ norm_out.shapes =
                  << RectA, RectB, TextA,
                     [type |-> "circle", x |-> 300, y |-> 200, fill |-> "#FF0000"],
                     CircleC, TextB >>
             /\ WithId(norm_out.shapes, "a") = 2 /\ WithId(norm_out.shapes, "b") = 2

\* the three steps of the claim's example have been normalized
C19_Witness ==
    /\ norm_out.done
    /\ norm_in = [final |-> 1, tools |-> << 1, 2, 3 >>]
    /\ Len(norm_out.shapes) = 6

\* C20: a final answer that is a text, a dict without "type", or missing
\* contributes no record, and of a list only the dicts with "type" do: the output
\* is then the steps' records alone, preceded by the typed items of the list.
C20_FinalAnswerNotShape ==
    norm_out.done =>
        /\ norm_in.final \in {1, 2, 3, 6} => norm_out.shapes = StepsYield(norm_in.tools)
        /\ norm_in.final = 5 => norm_out.shapes = << CircleC >> \o StepsYield(norm_in.tools)

\* a final answer that is a dict with "command" and no "type", and no step: no
\* record
C20_Witness ==
    /\ norm_out.done
    /\ norm_in = [final |-> 2, tools |-> << >>]
    /\ norm_out.shapes = << >>

\* C28: the sweep comes before the lookup. A get_memory call for a session whose
\* last access is more than SESSION_TIMEOUT old gives it a memory object never
\* handed out before, with an empty history, and drops every other session as
\* old; a call for a session idle for SESSION_TIMEOUT or less returns the memory
\* object the session had.
C28_SweepBeforeLookup ==
    [][ \A sid \in SessionIds :
          (GetStep(sid) /\ sid \in DOMAIN sessions) =>
            /\ now - sessions[sid].last_access > SESSION_TIMEOUT =>
                 /\ sessions'[sid].memory \notin 1..next_handle
                 /\ sessions'[sid].memory # sessions[sid].memory
                 /\ hist'[sessions'[sid].memory] = << >>
                 /\ Window(sessions'[sid].memory) = << >>
                 /\ next_handle' = next_handle + 1
            /\ now - sessions[sid].last_access <= SESSION_TIMEOUT =>
                 /\ sessions'[sid].memory = sessions[sid].memory
                 /\ next_handle' = next_handle
            /\ \A u \in DOMAIN sessions' :
                 u # sid => now - sessions[u].last_access <= SESSION_TIMEOUT ]_vars

\* s1 saved a turn through its first memory object, stayed away for more than
\* the timeout and was then given a second, empty one
C28_Witness ==
    /\ api_ret.op = "get_memory" /\ api_ret.sid = "s1"
    /\ last_get["s2"].h = NoRef
    /\ now = SESSION_TIMEOUT + 1
    /\ next_handle = 2
    /\ sessions["s1"].memory = 2
    /\ hist[1] # << >> /\ hist[2] = << >>

C30_NeverInvokesAbsent ==
    \A t \in Threads :
        /\ (HoldsAgent(t) \/ obs[t].invoked > 0) =>
              /\ loc[t].agent # NoRef
              /\ loc[t].agent \in 1..next_agent
        /\ (loc[t].reason = "missing" /\ (HoldsAgent(t) \/ pc[t] = "read_agent")) =>
              /\ obs[t].made # NoRef
              /\ obs[t].inits = 1
        /\ obs[t].cause \in {"ValueError", "ConstructionError"} =>
              /\ Returned(t)
              /\ result[t] = FailureResult(obs[t].cause)
              /\ obs[t].invoked = 0
              /\ worker[t] = NoWorker

\* a call found no agent (the startup creation had failed), created one with
\* reason "missing" and invoked it
C30_Witness ==
    \E t \in Threads :
        /\ loc[t].reason = "missing"
        /\ obs[t].made = 1 /\ loc[t].agent = 1
        /\ agent_creation_count = 2
        /\ obs[t].invoked = 1

\* ---- C25
\* c spells the palette name `name`: the letters of the name, each in either
\* case, with nothing but whitespace before and after
SameLetter(a, b) ==
    a = b \/ \E k \in DOMAIN UpperLetters : UpperLetters[k] = a /\ LowerLetters[k] = b
IsSpelling(c, name) ==
    \E i \in 0..Len(c) :
        /\ i + Len(name) <= Len(c)
        /\ \A k \in 1..Len(c) :
             IF k <= i \/ k > i + Len(name) THEN c[k] \in Whitespace
             ELSE SameLetter(c[k], name[k - i])

\* C25: normalize_color gives a palette name, in whatever letter case and with
\* whatever whitespace around it, the hex value of that name ("Blue" gives
\* "#0000FF"); gives back every other input exactly as it was given ("#abc123"
\* gives "#abc123"); and applied to its own result gives that result again.
C25_NormalizeColor ==
    color_out.n >= 1 =>
        /\ \A i \in DOMAIN COLOR_MAP :
             IsSpelling(color_in, COLOR_MAP[i][1]) => color_out.once = COLOR_MAP[i][2]
        /\ (\A i \in DOMAIN COLOR_MAP : ~IsSpelling(color_in, COLOR_MAP[i][1]))
             => color_out.once = color_in
        /\ color_in = << "B", "l", "u", "e" >>
             => color_out.once = << "#", "0", "0", "0", "0", "F", "F" >>
        /\ color_in = << "#", "a", "b", "c", "1", "2", "3" >>
             => color_out.once = << "#", "a", "b", "c", "1", "2", "3" >>
        /\ color_out.n = 2 => color_out.twice = color_out.once

\* " RED\t" has been normalized to "#FF0000", and normalizing that gave it again
C25_Witness ==
    /\ color_in = << " ", "R", "E", "D", "\t" >>
    /\ color_out.n = 2
    /\ color_out.once = << "#", "F", "F", "0", "0", "0", "0" >>
    /\ color_out.twice = color_out.once

\* ---- C21
\* a step in which the tool `tool` is called and returns
ToolStep(tool) == tool_calls' = tool_calls + 1 /\ tool_ret'.tool = tool
\* record i is the first of recs lacking the key
FirstLacking(recs, key, i) ==
    /\ i \in DOMAIN recs
    /\ ~Has(recs[i], key)
    /\ \A j \in 1..(i - 1) : Has(recs[j], key)

\* C21: create_shapes_batch called with a list in which some shape has no type,
\* and update_shapes_batch called with a list in which some update has no
\* shape_id, return one failure whose message carries the index (counted from 0)
\* of the first such record, make no call of the store at all, leave every
\* document as it was, and return rather than raise; of three shapes the second
\* of which has no type the index is 1.
C21_ValidateBeforeWrite ==
    [][ /\ \A i \in 1..3 :
             (ToolStep("create_shapes_batch") /\ FirstLacking(tool_ret'.args, "type", i)) =>
                /\ tool_ret'.ret =
                     [success |-> FALSE,
                      message |-> Msg("Shape is missing required field 'type'", i - 1)]
                /\ tool_ret'.calls = << >>
                /\ store' = store
        /\ \A i \in 1..3 :
             (ToolStep("update_shapes_batch") /\ FirstLacking(tool_ret'.args, "shape_id", i)) =>
                /\ tool_ret'.ret =
                     [success |-> FALSE,
                      message |-> Msg("Update is missing required field 'shape_id'", i - 1)]
                /\ tool_ret'.calls = << >>
                /\ store' = store
        /\ (ToolStep("create_shapes_batch") /\ Len(tool_ret'.args) = 3
              /\ Has(tool_ret'.args[1], "type") /\ ~Has(tool_ret'.args[2], "type")) =>
                tool_ret'.ret.message.n = 1 ]_vars

\* on a canvas of three rectangles, create_shapes_batch was called with three
\* shapes whose second has no type: it returned the failure for index 1 and the
\* canvas still holds the three rectangles only
C21_Witness ==
    /\ tool_ret.tool = "create_shapes_batch"
    /\ Len(tool_ret.args) = 3
    /\ Has(tool_ret.args[1], "type") /\ ~Has(tool_ret.args[2], "type")
    /\ Has(tool_ret.args[3], "type")
    /\ tool_ret.ret.success = FALSE
    /\ tool_ret.ret.message.n = 1
    /\ tool_ret.calls = << >>
    /\ DOMAIN store = {"f1", "f2", "f3"}

\* ---- C22
\* C22 (as claimed): when a call of the store made by a tool failed, the tool
\* returned success = False with a message, or, for get_canvas_shapes, the empty
\* list. (delete_all_shapes whose read of the canvas failed returns success =
\* True, "Canvas is already empty": get_all_shapes has turned the failure into [].)
C22_StoreFailureReported ==
    (\E i \in DOMAIN tool_ret.calls : ~tool_ret.calls[i].ok) =>
        IF tool_ret.tool = "get_canvas_shapes" THEN tool_ret.ret = << >>
        ELSE tool_ret.ret.success = FALSE /\ Has(tool_ret.ret, "message")

\* ---- C23
\* the shapes of the canvas that come before shape id in a row ordered by x
\* (shapes with the same x in the order the store lists them)
RowBefore(st, id) ==
    { o \in DOMAIN st :
        \/ Get(st[o], "x", 0) < Get(st[id], "x", 0)
        \/ Get(st[o], "x", 0) = Get(st[id], "x", 0) /\ Rank(o) < Rank(id) }
\* the room the shapes of S take in a row: their widths and a spacing after each
RECURSIVE RowRoom(_, _, _)
RowRoom(st, S, spacing) ==
    IF S = {} THEN 0
    ELSE LET o == CHOOSE o \in S : TRUE
         IN  Get(st[o], "width", 50) + spacing + RowRoom(st, S \ {o}, spacing)

\* C23: arrange_shapes_horizontal first reads the shapes of the canvas. If there
\* are none it returns failure and calls no write of the store. Otherwise it
\* makes exactly one more store call, one batch update holding one {shape_id, x,
\* y} per shape in ascending order of current x, in which the first x is 100,
\* each next x is the previous x plus the previous shape's width plus the
\* spacing, and every y is the same (the y_position given, if one was); when
\* the batch update succeeds the store holds those positions and every other
\* field of every shape as before. Widths 50, 80, 60 with spacing 10 give 100,
\* 160, 250.
C23_ArrangeHorizontal ==
    [][ ToolStep("arrange_shapes_horizontal") =>
          LET a == tool_ret'.args
              calls == tool_ret'.calls
              ret == tool_ret'.ret
          IN  /\ calls[1].op = "get_all_shapes"
              /\ (DOMAIN store = {} \/ ~calls[1].ok) =>
                    /\ ret.success = FALSE
                    /\ Len(calls) = 1
                    /\ store' = store
              /\ (DOMAIN store # {} /\ calls[1].ok) =>
                    /\ Len(calls) = 2
                    /\ calls[2].op = "update_shapes_batch"
                    /\ LET updates == calls[2].arg
                       IN  /\ Len(updates) = Cardinality(DOMAIN store)
                           /\ { updates[i]["shape_id"] : i \in DOMAIN updates } = DOMAIN store
                           /\ \A i \in DOMAIN updates :
                                /\ DOMAIN updates[i] = {"shape_id", "x", "y"}
                                /\ updates[i]["x"] =
                                     100 + RowRoom(store, RowBefore(store, updates[i]["shape_id"]),
                                                   a.spacing)
                                /\ updates[i]["y"] = updates[1]["y"]
                                /\ a.position # NoneVal => updates[i]["y"] = a.position.val
                           /\ updates[1]["x"] = 100
                           /\ \A i \in 1..(Len(updates) - 1) :
                                /\ Get(store[updates[i]["shape_id"]], "x", 0)
                                     <= Get(store[updates[i + 1]["shape_id"]], "x", 0)
                                /\ updates[i + 1]["x"] =
                                     updates[i]["x"]
                                     + Get(store[updates[i]["shape_id"]], "width", 50) + a.spacing
                           /\ calls[2].ok =>
                                /\ ret.success = TRUE
                                /\ DOMAIN store' = DOMAIN store
                                /\ \A i \in DOMAIN updates :
                                     LET id == updates[i]["shape_id"]
                                     IN  /\ store'[id]["x"] = updates[i]["x"]
                                         /\ store'[id]["y"] = updates[i]["y"]
                                         /\ DOMAIN store'[id] = DOMAIN store[id]
                                         /\ \A k \in DOMAIN store[id] \
                                                     {"x", "y", "updatedAt", "sessionId"} :
                                              store'[id][k] = store[id][k]
                           /\ ~calls[2].ok => ret.success = FALSE /\ store' = store
              /\ (store = ThreeRects /\ a.spacing = 10 /\ ret.success) =>
                    /\ store'["f2"]["x"] = 100
                    /\ store'["f1"]["x"] = 160
                    /\ store'["f3"]["x"] = 250 ]_vars

\* the three rectangles of widths 80, 50, 60 drawn at x = 200, 40, 320 and y = 0,
\* 60, 120 have been arranged with spacing 10 and no y_position: ordered by x
\* their widths are 50, 80, 60, they stand at x = 100, 160, 250, all at y = 60
C23_Witness ==
    /\ tool_ret.tool = "arrange_shapes_horizontal"
    /\ tool_ret.args = [spacing |-> 10, position |-> NoneVal]
    /\ tool_ret.ret.success
    /\ Len(tool_ret.calls) = 2
    /\ DOMAIN store = {"f1", "f2", "f3"}
    /\ store["f2"]["x"] = 100 /\ store["f1"]["x"] = 160 /\ store["f3"]["x"] = 250
    /\ \A id \in DOMAIN store : store[id]["y"] = 60 /\ store[id]["width"] = ThreeRects[id]["width"]

\* ---- C24
\* the first command was answered with one create_shape call for a red circle at
\* 300,200 on the empty canvas, and the store took the circle
RedCircleCommand ==
    /\ cmd_ret # NoResult
    /\ tool_calls = 1
    /\ tool_ret.tool = "create_shape"
    /\ tool_ret.args.shape_type = << "c", "i", "r", "c", "l", "e" >>
    /\ tool_ret.args.color = << "r", "e", "d" >>
    /\ tool_ret.args.x = 300 /\ tool_ret.args.y = 200
    /\ tool_ret.ret.success
    /\ DOMAIN store = {"u1"}

\* C24 (as claimed): the result of "create a red circle at 300,200" on an empty
\* canvas is successful and its shapes list holds exactly one shape, a circle
\* filled "#FF0000" at x = 300, y = 200 with isAIGenerated = True. (create_shape
\* returns {success, message, shape_id}, in which extract_shapes_from_result
\* finds no shape: the list is empty.)
C24_RedCircleEndToEnd ==
    RedCircleCommand =>
        /\ cmd_ret.success = TRUE
        /\ Len(cmd_ret.shapes) = 1
        /\ cmd_ret.shapes[1]["type"] = "circle"
        /\ cmd_ret.shapes[1]["fill"] = << "#", "F", "F", "0", "0", "0", "0" >>
        /\ cmd_ret.shapes[1]["x"] = 300
        /\ cmd_ret.shapes[1]["y"] = 200
        /\ cmd_ret.shapes[1]["isAIGenerated"] = TRUE

\* ---- C26
\* C26 (as claimed): every stored shape of type "text" has text and fontSize, and
\* no stored shape of another type has either. (create_shapes_batch checks only
\* that a shape has a type: a shape {type: "text", x, y, width, height, fill} is
\* stored as it is.)
C26_TextFieldsIffText ==
    \A id \in DOMAIN store :
        IF Has(store[id], "type") /\ store[id]["type"] = "text"
        THEN Has(store[id], "text") /\ Has(store[id], "fontSize")
        ELSE ~Has(store[id], "text") /\ ~Has(store[id], "fontSize")

\* ---- C27
\* the store fields a single-shape update tool names, and the metadata the store
\* stamps on an update
NamedFields(tool) ==
    CASE tool = "move_shape" -> {"x", "y"}
      [] tool = "resize_shape" -> {"width", "height"}
      [] tool = "rotate_shape" -> {"rotation"}
      [] tool = "change_shape_color" -> {"fill"}
StampedFields == {"updatedAt", "sessionId"}

\* C27: move_shape, resize_shape, rotate_shape and change_shape_color called for
\* shape id s leave every other shape of the canvas as it was and add or remove
\* no shape; on s they change nothing but the fields the tool names and the
\* metadata the store stamps; when s does not exist the store is left as it was,
\* no shape s is created and the tool returns success = False; when the tool
\* returns success the named fields hold the values asked for.
C27_UpdateFrame ==
    [][ \A tool \in {"move_shape", "resize_shape", "rotate_shape", "change_shape_color"} :
          ToolStep(tool) =>
            LET a == tool_ret'.args
                s == a.shape_id
                ret == tool_ret'.ret
            IN  /\ DOMAIN store' = DOMAIN store
                /\ \A o \in DOMAIN store \ {s} : store'[o] = store[o]
                /\ s \notin DOMAIN store => store' = store /\ ret.success = FALSE
                /\ s \in DOMAIN store =>
                     /\ \A k \in DOMAIN store[s] \ (NamedFields(tool) \cup StampedFields) :
                          k \in DOMAIN store'[s] /\ store'[s][k] = store[s][k]
                     /\ DOMAIN store'[s] \subseteq
                          (DOMAIN store[s]) \cup NamedFields(tool) \cup StampedFields
                     /\ ~ret.success => store' = store
                     /\ ret.success =>
                          CASE tool = "move_shape" ->
                                 store'[s]["x"] = a.new_x /\ store'[s]["y"] = a.new_y
                            [] tool = "resize_shape" ->
                                 /\ store'[s]["width"] = a.new_width
                                 /\ store'[s]["height"] =
                                      IF a.new_height = NoneVal THEN a.new_width
                                      ELSE a.new_height.val
                            [] tool = "rotate_shape" -> store'[s]["rotation"] = 90
                            [] tool = "change_shape_color" ->
                                 store'[s]["fill"] \in {<< "#", "0", "0", "F", "F", "0", "0" >>,
                                                        << "#", "A", "B", "C" >>} ]_vars

\* on the canvas of three rectangles, move_shape has moved f1 to 7, 9: f1 keeps
\* its width, height and fill, f2 and f3 are as they were drawn
C27_Witness ==
    /\ tool_ret.tool = "move_shape"
    /\ tool_ret.args.shape_id = "f1"
    /\ tool_ret.ret.success
    /\ tool_calls = 1
    /\ DOMAIN store = {"f1", "f2", "f3"}
    /\ store["f1"]["x"] = 7 /\ store["f1"]["y"] = 9
    /\ store["f1"]["width"] = 80 /\ store["f1"]["fill"] = ThreeRects["f1"]["fill"]
    /\ store["f1"]["updatedAt"] = 1
    /\ store["f2"] = ThreeRects["f2"] /\ store["f3"] = ThreeRects["f3"]

\* ---- C31
\* C31: a call of execute_canvas_command submits agent.invoke at most once. The
\* one submission is made by a call that has neither timed out nor caught an
\* exception; a call whose invocation timed out or raised has submitted once,
\* and does nothing more than wait for its worker and return.
C31_InvokesAtMostOnce ==
    /\ [](\A t \in Threads :
            /\ obs[t].invoked <= 1
            /\ (obs[t].timed_out \/ obs[t].cause = "EngineError") =>
                 /\ obs[t].invoked = 1
                 /\ pc[t] \in {"shutdown_wait", "done"}
                 /\ Returned(t) => result[t].success = FALSE /\ worker[t].st # "running")
    /\ [][ \A t \in Threads :
             (obs'[t].invoked > obs[t].invoked /\ Busy(t)) =>
                /\ obs[t].invoked = 0
                /\ ~obs[t].timed_out
                /\ obs[t].cause = "none"
                /\ worker[t].st = "none" ]_vars

\* a call whose invocation raised has returned the failure, having invoked once,
\* and no worker is left running
C31_Witness ==
    \E t \in Threads :
        /\ Returned(t)
        /\ obs[t].cause = "EngineError"
        /\ obs[t].invoked = 1
        /\ result[t].success = FALSE
        /\ worker[t] = NoWorker

\* C32: a command that timed out neither stops nor rolls back the tool calls of
\* its invocation. The step at which the 20 seconds run out leaves the worker
\* running and the store as it is; while the call waits, only a tool call of the
\* still running invocation changes the store; the return of the timeout failure
\* (success false, no shapes) leaves the store as it is, so a shape the
\* invocation created last is in the store after the call has returned.
C32_TimeoutKeepsWrites ==
    /\ [][ \A t \in Threads :
             (obs'[t].timed_out /\ ~obs[t].timed_out) =>
                /\ store' = store
                /\ worker'[t] = worker[t]
                /\ worker'[t].st = "running" ]_vars
    /\ [][ \A t \in Threads :
             (obs[t].timed_out /\ Busy(t) /\ store' # store) =>
                /\ tool_calls' = tool_calls + 1
                /\ worker[t].st = "running"
                /\ WorkerLate(t)' ]_vars
    /\ [][ \A t \in Threads :
             (pc[t] = "shutdown_wait" /\ Returned(t)') =>
                /\ store' = store
                /\ result'[t] = TimeoutResult
                /\ result'[t].shapes = << >> ]_vars
    /\ [](\A t \in Threads :
             (Returned(t) /\ obs[t].timed_out /\ tool_ret.tool = "create_shape"
                /\ tool_ret.ret.success) =>
                 /\ tool_ret.ret.shape_id \in DOMAIN store
                 /\ store[tool_ret.ret.shape_id]["x"] = tool_ret.args.x)

\* the call has returned the timeout failure with no shapes, and the shape its
\* invocation created after the 20 seconds had run out is in the store
C32_Witness ==
    \E t \in Threads :
        /\ Returned(t) /\ obs[t].timed_out
        /\ result[t] = TimeoutResult /\ result[t].shapes = << >>
        /\ WorkerLate(t)
        /\ tool_ret.tool = "create_shape" /\ tool_ret.ret.success
        /\ tool_ret.ret.shape_id \in DOMAIN store

\* C33: tagging does not clobber. Every shape of a successful result has
\* isAIGenerated = TRUE and an id, the id the tool gave it when it gave one, and
\* a canvasId, userId or sessionId the shape already carries is still the one it
\* carries in the result.
C33_TaggingKeepsExisting ==
    (cmd_ret # NoResult /\ tool_ret.tool # "get_canvas_shapes" /\ Has(tool_ret.ret, "shapes")
        /\ Len(cmd_ret.shapes) = Len(tool_ret.ret.shapes)) =>
        \A i \in DOMAIN cmd_ret.shapes :
            LET tagged == cmd_ret.shapes[i]
                given == tool_ret.ret.shapes[i]
            IN  /\ Has(tagged, "isAIGenerated") /\ tagged["isAIGenerated"] = TRUE
                /\ Has(tagged, "id")
                /\ Has(given, "id") => tagged["id"] = given["id"]
                /\ \A k \in {"canvasId", "userId", "sessionId"} :
                      Has(given, k) => Has(tagged, k) /\ tagged[k] = given[k]

\* what the dict of each kind is to contribute, written out
DictYield(k) ==
    CASE k = 11 -> << RectA, TextA >>
      [] k = 12 -> << RectB, CircleC >>
      [] k = 13 -> << [type |-> "circle", x |-> 300, y |-> 200, fill |-> "#FF0000"] >>
      [] k = 14 -> << [type |-> "circle", command |-> "create", x |-> 5] >>
      [] k = 15 -> << MoveCmd >>
      [] k = 16 -> << >>
      [] k = 17 -> << [shapes |-> Str("none"), command |-> "clear"] >>
      [] OTHER -> << >>

RECURSIVE DictsYield(_)
DictsYield(ts) ==
    IF ts = << >> THEN << >> ELSE DictYield(Head(ts)) \o DictsYield(Tail(ts))

\* C34: a dict a tool returned is handled by exactly one branch, tried in the
\* order "shapes" list, "type", "command": a dict with a "shapes" list gives the
\* typed entries of the list and never itself, also when it carries "type" or
\* "command"; a dict with "type" gives itself once; a dict with "command" and no
\* "type" gives itself unchanged; any other dict, such as the envelope of
\* success, message and shape_id, gives nothing.
C34_OneBranchInOrder ==
    (norm_out.done /\ \A i \in DOMAIN norm_in.tools : norm_in.tools[i] \in DictKinds) =>
        norm_out.shapes = DictsYield(norm_in.tools)

\* a wrapper with type, command and a list of two, the envelope, and a command
\* dict: the two entries and the command dict come out
C34_Witness ==
    /\ norm_out.done
    /\ norm_in.tools = << 12, 16, 15 >>
    /\ norm_out.shapes = << RectB, CircleC, MoveCmd >>

\* C35: every rotation in the store lies in [0, 360), whichever tool wrote it:
\* rotate_shape, create_shape and create_shapes_batch with a rotation given,
\* update_shapes_batch.
C35_RotationInRange ==
    \A id \in DOMAIN store :
        Has(store[id], "rotation") => store[id]["rotation"] \in 0..359

\* C36: nothing resets the agent reference. Once an agent is present one is
\* present in every later state, so is_initialized stays true; the reference
\* changes only to an agent built in that step, so an initialize_agent call that
\* fails leaves the agent that was current; a later command reads that agent and
\* is invoked on it.
C36_AgentNeverReset ==
    /\ [][ global_agent # NoRef => global_agent' # NoRef ]_vars
    /\ [][ get_agent_stats.is_initialized => (get_agent_stats.is_initialized)' ]_vars
    /\ [][ global_agent' # global_agent =>
             /\ next_agent' = next_agent + 1
             /\ global_agent' = next_agent' ]_vars
    /\ [][ \A t \in Threads :
             (obs'[t].cause \in {"ValueError", "ConstructionError"} /\ obs[t].cause = "none") =>
                global_agent' = global_agent ]_vars
    /\ [][ (HealthStep /\ health_ret'.val = "raised") => global_agent' = global_agent ]_vars
    /\ [](\A t \in Threads :
             HoldsAgent(t) => loc[t].agent = global_agent /\ loc[t].agent # NoRef)

\* the agent of the startup is still current after a health check whose
\* recreation failed, and a command started after that check succeeded on it
C36_Witness ==
    /\ monitor = "dead" /\ health_ret = NoHealth
    /\ init_calls = 2 /\ next_agent = 1 /\ global_agent = 1
    /\ Returned(Main) /\ result[Main].success = TRUE /\ loc[Main].agent = 1

C38_CountsAttempts ==
    /\ [][ agent_creation_count' >= agent_creation_count ]_vars
    /\ [][ agent_creation_count' - agent_creation_count = init_calls' - init_calls ]_vars
    /\ [](agent_creation_count = init_calls /\ next_agent <= agent_creation_count)
    /\ [][ \A t \in Threads :
             (pc[t] = "init_write" /\ pc'[t] # pc[t]) =>
                /\ agent_creation_count' = agent_creation_count + 1
                /\ pc'[t] = "init_create"
                /\ global_agent' = global_agent /\ next_agent' = next_agent ]_vars
    /\ [](\A t \in Threads :
             pc[t] = "init_create" => obs[t].inits >= 1 /\ agent_creation_count > next_agent)
    /\ [](get_agent_stats.creation_count = agent_creation_count)

\* startup without the API key: one attempt counted, no agent
C38_Witness ==
    /\ agent_creation_count > 0
    /\ global_agent = NoRef
    /\ stats_ret # NoStats
    /\ stats_ret.creation_count > 0 /\ stats_ret.is_initialized = FALSE

\* C39: a command whose invocation returned reports success whatever its tool
\* calls reported: the result has success = TRUE and no error field, and when
\* the tool call returned success = FALSE the result has no shapes.
C39_SuccessDespiteToolFailure ==
    cmd_ret # NoResult =>
        /\ cmd_ret.success = TRUE
        /\ ~Has(cmd_ret, "error")
        /\ DOMAIN cmd_ret = {"success", "message", "shapes"}
        /\ (tool_ret.tool # "get_canvas_shapes" /\ tool_ret.ret.success = FALSE) =>
              cmd_ret.shapes = << >>

\* move_shape on a shape that does not exist failed; the command succeeded
C39_Witness ==
    /\ cmd_ret # NoResult
    /\ tool_ret.tool = "move_shape" /\ tool_ret.ret.success = FALSE
    /\ cmd_ret.success = TRUE /\ cmd_ret.shapes = << >> /\ ~Has(cmd_ret, "error")

\* a get_active_sessions_count call returns
CountStep == api_ret' # api_ret /\ api_ret'.op = "get_active_sessions_count"

\* C40: get_active_sessions_count neither sweeps nor refreshes. It returns the
\* number of entries of the session map, those past the timeout included, and
\* leaves the map, the access times and the memory objects as they are; the
\* entries past the timeout are gone from the map after a get_memory call.
C40_CountNoSweep ==
    /\ [][ CountStep =>
             /\ api_ret'.val = Cardinality(DOMAIN sessions)
             /\ api_ret'.val >= Cardinality(Expired(sessions, now))
             /\ sessions' = sessions
             /\ << hist', next_handle', now', last_get' >> = << hist, next_handle, now, last_get >> ]_vars
    /\ [][ (api_ret'.op = "get_memory" /\ last_get' # last_get) =>
             Expired(sessions', now') = {} ]_vars
    /\ [][ DOMAIN sessions' # DOMAIN sessions => api_ret'.op # "get_active_sessions_count" ]_vars

\* the count returned is 1 and the one session of the map is past the timeout
C40_Witness ==
    /\ api_ret.op = "get_active_sessions_count"
    /\ api_ret.val = 1
    /\ Cardinality(DOMAIN sessions) = 1
    /\ Expired(sessions, now) = DOMAIN sessions
====
